---------------------------- MODULE Spec2Model ----------------------------
(***************************************************************************)
(* A model of SQLhelper's DDL conversion pipeline                          *)
(* (SQLhelper-back: DialectDetectionService, DdlParserService).            *)
(*                                                                         *)
(* SQL text is a TLA+ string; the scanners and regular expressions of the  *)
(* source are operators that walk the string character by character.       *)
(* Positions are 1-based: position p of the model is index p-1 of the      *)
(* JavaScript string.  An optional value (undefined in the source) is the  *)
(* empty sequence, a present value v is <<v>>.                             *)
(***************************************************************************)
EXTENDS Integers, Sequences, FiniteSets, TLC

(***************************************************************************)
(* Characters and the JavaScript string primitives the source uses.        *)
(***************************************************************************)
Char(s, i) == SubSeq(s, i, i)

CharsOf(s) == { Char(s, i) : i \in 1..Len(s) }

LowerLetters == "abcdefghijklmnopqrstuvwxyz"

UpperLetters == "ABCDEFGHIJKLMNOPQRSTUVWXYZ"

Digits == "0123456789"

LetterSet == CharsOf(LowerLetters) \cup CharsOf(UpperLetters)

DigitSet == CharsOf(Digits)

\* \w of a JavaScript regular expression
WordSet == LetterSet \cup DigitSet \cup {"_"}

\* \s of a JavaScript regular expression (the characters the inputs use)
SpaceSet == {" ", "\t", "\n", "\r"}

\* the line terminators "." does not match and "$" (flag m) stops at
LineEndSet == {"\n", "\r"}

UpperOf == [ c \in CharsOf(LowerLetters) |->
               Char(UpperLetters, CHOOSE i \in 1..26 : Char(LowerLetters, i) = c) ]

LowerOf == [ c \in CharsOf(UpperLetters) |->
               Char(LowerLetters, CHOOSE i \in 1..26 : Char(UpperLetters, i) = c) ]

UpperChar(c) == IF c \in DOMAIN UpperOf THEN UpperOf[c] ELSE c

LowerChar(c) == IF c \in DOMAIN LowerOf THEN LowerOf[c] ELSE c

\* the concatenation of a sequence of strings (halving keeps the recursion shallow)
RECURSIVE Concat(_)
Concat(parts) ==
    IF Len(parts) = 0 THEN ""
    ELSE IF Len(parts) = 1 THEN parts[1]
    ELSE LET m == Len(parts) \div 2
         IN  Concat(SubSeq(parts, 1, m)) \o Concat(SubSeq(parts, m + 1, Len(parts)))

toUpperCase(s) == Concat([ i \in 1..Len(s) |-> UpperChar(Char(s, i)) ])

toLowerCase(s) == Concat([ i \in 1..Len(s) |-> LowerChar(Char(s, i)) ])

\* s.includes(lit)
includes(s, lit) ==
    \E i \in 1..(Len(s) - Len(lit) + 1) : SubSeq(s, i, i + Len(lit) - 1) = lit

\* s.startsWith(lit)
startsWith(s, lit) == Len(lit) <= Len(s) /\ SubSeq(s, 1, Len(lit)) = lit

\* s.trim()
trim(s) ==
    IF \A i \in 1..Len(s) : Char(s, i) \in SpaceSet THEN ""
    ELSE LET a == CHOOSE i \in 1..Len(s) :
                    /\ Char(s, i) \notin SpaceSet
                    /\ \A k \in 1..(i - 1) : Char(s, k) \in SpaceSet
             b == CHOOSE i \in 1..Len(s) :
                    /\ Char(s, i) \notin SpaceSet
                    /\ \A k \in (i + 1)..Len(s) : Char(s, k) \in SpaceSet
         IN  SubSeq(s, a, b)

\* s.split(',')
RECURSIVE split(_)
split(s) ==
    IF ~includes(s, ",") THEN << s >>
    ELSE LET i == CHOOSE k \in 1..Len(s) :
                    Char(s, k) = "," /\ \A j \in 1..(k - 1) : Char(s, j) # ","
         IN  << SubSeq(s, 1, i - 1) >> \o split(SubSeq(s, i + 1, Len(s)))

\* array.join(sep)
RECURSIVE join(_, _)
join(parts, sep) ==
    IF parts = << >> THEN ""
    ELSE IF Len(parts) = 1 THEN parts[1]
    ELSE parts[1] \o sep \o join(Tail(parts), sep)

\* s.replace(/x/g, '') for a set of single characters
removeChars(s, cs) ==
    Concat([ i \in 1..Len(s) |-> IF Char(s, i) \in cs THEN "" ELSE Char(s, i) ])

\* s.indexOf(lit, from) in 1-based positions; 0 when lit does not occur
indexOf(s, lit, from) ==
    IF \E i \in from..(Len(s) - Len(lit) + 1) : SubSeq(s, i, i + Len(lit) - 1) = lit
    THEN CHOOSE i \in from..(Len(s) - Len(lit) + 1) :
            /\ SubSeq(s, i, i + Len(lit) - 1) = lit
            /\ \A k \in from..(i - 1) : SubSeq(s, k, k + Len(lit) - 1) # lit
    ELSE 0

None == << >>

Some(v) == << v >>

\* SANY cannot read the grave accent (U+0060) inside a string: the model
\* writes the MySQL identifier quote as this character, which the inputs
\* use for nothing else.
Backtick == "~"

(***************************************************************************)
(* Results of operations that may throw: Ok(v), or Throw(message) for      *)
(* throw new Error(message).                                               *)
(***************************************************************************)
Ok(v) == [ error |-> FALSE, value |-> v ]

Throw(msg) == [ error |-> TRUE, message |-> msg ]

(***************************************************************************)
(* Regular expressions.  A match in progress is a record                   *)
(*   [s: the text, p: the position to read next, 0 when the match failed,  *)
(*    marks: the positions where the capturing groups start and end].      *)
(* A regular expression is the composition of the matchers of its parts,   *)
(* each taking the match so far and returning the match after its part.    *)
(***************************************************************************)
\* the longest run of characters of cs from p on (greedy cs*): the position after it
Run(s, p, cs) ==
    CHOOSE q \in p..(Len(s) + 1) :
        /\ (q = Len(s) + 1 \/ Char(s, q) \notin cs)
        /\ \A k \in p..(q - 1) : Char(s, k) \in cs

\* the longest run of characters outside cs from p on (greedy [^cs]*)
RunNot(s, p, cs) ==
    CHOOSE q \in p..(Len(s) + 1) :
        /\ (q = Len(s) + 1 \/ Char(s, q) \in cs)
        /\ \A k \in p..(q - 1) : Char(s, k) \notin cs

\* the match that starts at position i of text s
Begin(s, i) == [ s |-> s, p |-> i, marks |-> << >> ]

Fail(m) == [ m EXCEPT !.p = 0 ]

To(m, q) == [ m EXCEPT !.p = q ]

\* a | b, and a? as OrElse(a, m): the first alternative that matches
OrElse(a, b) == IF a.p # 0 THEN a ELSE b

\* the start or the end of a capturing group
Mark(m) == IF m.p = 0 THEN m ELSE [ m EXCEPT !.marks = Append(@, m.p) ]

\* an optional capturing group that takes no part in the match
Skip(m) == [ m EXCEPT !.marks = @ \o << 0, 0 >> ]

\* whether capturing group k took part in the match
HasGroup(m, k) == Len(m.marks) >= 2 * k /\ m.marks[2 * k - 1] # 0

\* the text of capturing group k
Group(m, k) == SubSeq(m.s, m.marks[2 * k - 1], m.marks[2 * k] - 1)

\* the literal lit, ignoring case (flag i); lit is upper case
Lit(m, lit) ==
    IF m.p >= 1 /\ m.p + Len(lit) - 1 <= Len(m.s)
       /\ toUpperCase(SubSeq(m.s, m.p, m.p + Len(lit) - 1)) = lit
    THEN To(m, m.p + Len(lit)) ELSE Fail(m)

\* cs*
Many(m, cs) == IF m.p = 0 THEN m ELSE To(m, Run(m.s, m.p, cs))

\* [^cs]*
ManyNot(m, cs) == IF m.p = 0 THEN m ELSE To(m, RunNot(m.s, m.p, cs))

\* a run that must hold at least one character
NonEmpty(m, after) == IF after.p = m.p THEN Fail(m) ELSE after

\* cs+
Many1(m, cs) == NonEmpty(m, Many(m, cs))

\* [^cs]+
ManyNot1(m, cs) == NonEmpty(m, ManyNot(m, cs))

\* \s*
Spaces(m) == Many(m, SpaceSet)

\* \s+
Spaces1(m) == Many1(m, SpaceSet)

\* cs? : one optional character of cs
Maybe(m, cs) ==
    IF m.p # 0 /\ m.p <= Len(m.s) /\ Char(m.s, m.p) \in cs THEN To(m, m.p + 1) ELSE m

\* one required character c
One(m, c) ==
    IF m.p >= 1 /\ m.p <= Len(m.s) /\ Char(m.s, m.p) = c THEN To(m, m.p + 1) ELSE Fail(m)

\* upper-case words separated by \s+ (as in NO\s+ACTION)
RECURSIVE Words(_, _)
Words(m, ws) ==
    IF Len(ws) = 1 THEN Lit(m, ws[1])
    ELSE Words(Spaces1(Lit(m, ws[1])), Tail(ws))

\* the least element of a nonempty set of positions
Min(S) == CHOOSE x \in S : \A y \in S : x <= y

\* the leftmost match at or after position from of a regular expression that
\* is searched for (exec with lastIndex, match and test without ^):
\* At(s, i) is its match at position i
SearchFrom(At(_, _), s, from) ==
    LET leftmost(hits) == IF hits = {} THEN Begin(s, 0) ELSE At(s, Min(hits))
    IN  leftmost({ i \in from..Len(s) : At(s, i).p # 0 })

Search(At(_, _), s) == SearchFrom(At, s, 1)

\* \(([^)]+)\)
ParenGroup(m) == One(Mark(ManyNot1(Mark(One(m, "(")), {")"})), ")")

\* (CASCADE|SET\s+NULL|SET\s+DEFAULT|RESTRICT|NO\s+ACTION)
Action(m) ==
    OrElse(Lit(m, "CASCADE"),
    OrElse(Words(m, << "SET", "NULL" >>),
    OrElse(Words(m, << "SET", "DEFAULT" >>),
    OrElse(Lit(m, "RESTRICT"),
           Words(m, << "NO", "ACTION" >>)))))

ActionGroup(m) == Mark(Action(Mark(m)))

(***************************************************************************)
(* DdlParserService.cleanSql                                               *)
(***************************************************************************)
\* .replace(/--.*$/gm, ''): the leftmost "--" and the rest of its line go,
\* then the replacement goes on behind it (one recursion step per comment)
RECURSIVE removeLineComments(_)
removeLineComments(s) ==
    LET from(a) == IF a = 0 THEN s
                   ELSE SubSeq(s, 1, a - 1)
                        \o removeLineComments(SubSeq(s, RunNot(s, a, LineEndSet), Len(s)))
    IN  from(indexOf(s, "--", 1))

\* .replace(/\/\*[\s\S]*?\*\//gm, ''): the leftmost "/*" that has a "*/" behind
\* it goes with everything up to the first such "*/"
RECURSIVE removeBlockComments(_)
removeBlockComments(s) ==
    LET span(a, e) == IF e = 0 THEN s
                      ELSE SubSeq(s, 1, a - 1) \o removeBlockComments(SubSeq(s, e + 2, Len(s)))
        from(a) == span(a, IF a = 0 THEN 0 ELSE indexOf(s, "*/", a + 2))
    IN  from(indexOf(s, "/*", 1))

\* .replace(/\s+/g, ' '): the first character of a whitespace run becomes one
\* space, the others go
collapseWhitespace(s) ==
    Concat([ i \in 1..Len(s) |->
               IF Char(s, i) \notin SpaceSet THEN Char(s, i)
               ELSE IF i > 1 /\ Char(s, i - 1) \in SpaceSet THEN "" ELSE " " ])

cleanSql(sql) == trim(collapseWhitespace(removeBlockComments(removeLineComments(sql))))

(***************************************************************************)
(* DdlParserService.cleanIdentifier                                        *)
(***************************************************************************)
cleanIdentifier(identifier) ==
    trim(removeChars(identifier, {Backtick, "\"", "'", "[", "]"}))

\* list.split(',').map(col => this.cleanIdentifier(col.trim()))
cleanIdentifierList(text) ==
    LET each(parts) == [ k \in 1..Len(parts) |-> cleanIdentifier(trim(parts[k])) ]
    IN  each(split(text))

(***************************************************************************)
(* The CREATE TABLE header                                                 *)
\*   /CREATE\s+(?:TEMPORARY\s+)?TABLE\s+(?:IF\s+NOT\s+EXISTS\s+)?
\*    ([`"]?\w+[`"]?)\s*\(/gis
(* Group 1 is the table name; the match ends after the opening             *)
(* parenthesis (match.index + match[0].length).                            *)
(***************************************************************************)
HeaderQuotes == {Backtick, "\""}

\* CREATE\s+(?:TEMPORARY\s+)?TABLE
createTablePrefix(m) ==
    LET table(c) == Lit(OrElse(Spaces1(Lit(c, "TEMPORARY")), c), "TABLE")
    IN  table(Spaces1(Lit(m, "CREATE")))

\* ([`"]?\w+[`"]?)\s*\(
tableNameGroup(m) ==
    One(Spaces(Mark(Maybe(Many1(Maybe(Mark(m), HeaderQuotes), WordSet), HeaderQuotes))), "(")

createTableRegexAt(s, i) ==
    LET name(t) == OrElse(tableNameGroup(Spaces1(Words(t, << "IF", "NOT", "EXISTS" >>))),
                          tableNameGroup(t))
    IN  name(Spaces1(createTablePrefix(Begin(s, i))))

\* createTableRegex.exec(sql) with lastIndex = from - 1: the leftmost match at
\* or after position from
createTableRegexExec(s, from) == SearchFrom(createTableRegexAt, s, from)

\* a faulty variant of the test below: it asks for a terminated statement
hasTerminatedCreateTable(s) ==
    (\E i \in 1..Len(s) : createTablePrefix(Begin(s, i)).p # 0) /\ includes(s, ")")

\* /CREATE\s+(?:TEMPORARY\s+)?TABLE/i.test(cleanSql)
hasCreateTable(s) == \E i \in 1..Len(s) : createTablePrefix(Begin(s, i)).p # 0

(***************************************************************************)
(* The scan for the matching closing parenthesis                           *)
(* (parseTableStatements): [i, depth] when the while loop ends.            *)
(***************************************************************************)
\* One recursion step per parenthesis: the characters between two
\* parentheses change nothing and are passed over together.
RECURSIVE matchParen(_, _, _)
matchParen(sql, i, depth) ==
    LET at(q) == IF q > Len(sql) THEN [ i |-> q, depth |-> depth ]
                 ELSE matchParen(sql, q + 1,
                                 IF Char(sql, q) = "(" THEN depth + 1 ELSE depth - 1)
    IN  IF i <= Len(sql) /\ depth > 0
        THEN at(RunNot(sql, i, {"(", ")"}))
        ELSE [ i |-> i, depth |-> depth ]

(***************************************************************************)
(* DdlParserService.splitTableStatements                                   *)
(***************************************************************************)
\* a faulty variant of the set below: the grave accent opens no quoted span
SplitQuotesOfLiterals == {"\"", "'"}

SplitQuotes == {"\"", "'", Backtick}

\* One recursion step per quote, parenthesis or comma: a run of other
\* characters (inside a quoted span: of characters other than the closing
\* quote) is appended to current in one step.
SplitPlain(tableBody, i, inString, stringChar) ==
    RunNot(tableBody, i, IF inString THEN {stringChar} ELSE SplitQuotes \cup {"(", ")", ","})

RECURSIVE splitLoop(_, _, _, _, _, _, _)
splitLoop(tableBody, i, current, depth, inString, stringChar, statements) ==
    LET step(q, char) ==
            IF q > i
            THEN splitLoop(tableBody, q, current \o SubSeq(tableBody, i, q - 1),
                           depth, inString, stringChar, statements)
            ELSE IF ~inString /\ char \in SplitQuotes
            THEN splitLoop(tableBody, i + 1, current \o char, depth, TRUE, char, statements)
            ELSE IF inString /\ char = stringChar
            THEN splitLoop(tableBody, i + 1, current \o char, depth, FALSE, "", statements)
            ELSE IF ~inString /\ char = "("
            THEN splitLoop(tableBody, i + 1, current \o char, depth + 1, inString, stringChar, statements)
            ELSE IF ~inString /\ char = ")"
            THEN splitLoop(tableBody, i + 1, current \o char, depth - 1, inString, stringChar, statements)
            ELSE IF ~inString /\ char = "," /\ depth = 0
            THEN splitLoop(tableBody, i + 1, "", depth, inString, stringChar, Append(statements, current))
            ELSE splitLoop(tableBody, i + 1, current \o char, depth, inString, stringChar, statements)
    IN  IF i > Len(tableBody)
        THEN IF trim(current) # "" THEN Append(statements, current) ELSE statements
        ELSE step(SplitPlain(tableBody, i, inString, stringChar), Char(tableBody, i))

splitTableStatements(tableBody) == splitLoop(tableBody, 1, "", 0, FALSE, "", << >>)

(***************************************************************************)
(* DdlParserService.isColumnDefinition                                     *)
(***************************************************************************)
isColumnDefinition(statement) ==
    LET none(trimmed) ==
            /\ ~startsWith(trimmed, "PRIMARY KEY")
            /\ ~startsWith(trimmed, "FOREIGN KEY")
            /\ ~startsWith(trimmed, "UNIQUE")
            /\ ~startsWith(trimmed, "INDEX")
            /\ ~startsWith(trimmed, "KEY")
            /\ ~startsWith(trimmed, "CONSTRAINT")
    IN  none(toUpperCase(trim(statement)))

(***************************************************************************)
(* parseInt(text): None for NaN.  Decimal digits after optional leading    *)
(* whitespace and sign (the inputs hold no 0x prefix).                     *)
(***************************************************************************)
DigitValue(c) == (CHOOSE i \in 1..10 : Char(Digits, i) = c) - 1

RECURSIVE DigitsValue(_)
DigitsValue(ds) ==
    IF ds = "" THEN 0
    ELSE 10 * DigitsValue(SubSeq(ds, 1, Len(ds) - 1)) + DigitValue(Char(ds, Len(ds)))

\* marks: where the sign may stand, where the digits start
parseInt(text) ==
    LET value(m) ==
            IF m.p = m.marks[2] THEN None
            ELSE Some((IF m.marks[2] > m.marks[1] /\ Char(text, m.marks[1]) = "-" THEN -1 ELSE 1)
                      * DigitsValue(SubSeq(text, m.marks[2], m.p - 1)))
    IN  value(Many(Mark(Maybe(Mark(Spaces(Begin(text, 1))), {"+", "-"})), DigitSet))

(***************************************************************************)
(* DdlParserService.parseColumnDefinition                                  *)
(***************************************************************************)
ColumnQuotes == {Backtick, "\"", "'"}

\* trimmed.match(/^([`"']?\w+[`"']?)/): group 1 is the name
nameMatch(trimmed) ==
    Mark(Maybe(Many1(Maybe(Mark(Begin(trimmed, 1)), ColumnQuotes), WordSet), ColumnQuotes))

\* (.*?)\) behind an opening parenthesis: up to the first ")" of the line
LazyParen(m) ==
    LET upTo(e) == IF e = 0 \/ \E k \in m.p..(e - 1) : Char(m.s, k) \in LineEndSet
                   THEN Fail(m)
                   ELSE One(Mark(To(Mark(m), e)), ")")
    IN  IF m.p = 0 THEN m ELSE upTo(indexOf(m.s, ")", m.p))

\* trimmed.match(/^[`"']?\w+[`"']?\s+([A-Z_]+)(?:\s*\((.*?)\))?/i):
\* group 1 is the type, group 2 the parameters
typeMatch(trimmed) ==
    LET params(t) == OrElse(LazyParen(One(Spaces(t), "(")), Skip(t))
        type(n) == IF n.p = 0 THEN n ELSE params(Mark(Many1(Mark(n), LetterSet \cup {"_"})))
    IN  type(Spaces1(Maybe(Many1(Maybe(Begin(trimmed, 1), ColumnQuotes), WordSet), ColumnQuotes)))

\* statement.match(/DEFAULT\s+([^\s,)]+(?:\([^)]*\))?)/i) at position i:
\* group 1 is the default
defaultAt(s, i) ==
    LET tail(q) == Mark(OrElse(One(ManyNot(One(q, "("), {")"}), ")"), q))
    IN  tail(ManyNot1(Mark(Spaces1(Lit(Begin(s, i), "DEFAULT"))), SpaceSet \cup {",", ")"}))

defaultMatch(s) == Search(defaultAt, s)

\* !isNaN(Number(text)) for the numerals of the inputs: an optional sign and
\* decimal digits
isNumeric(text) ==
    LET digits(b) == Len(text) >= b /\ Run(text, b, DigitSet) = Len(text) + 1
    IN  digits(Maybe(Begin(text, 1), {"+", "-"}).p)

\* Number(text) is Infinity or -Infinity
isInfinite(text) == text \in { "Infinity", "+Infinity", "-Infinity" }

\* the default value of a column: null, a boolean, a number or a string; a
\* number that is not finite is kept as its sign
defaultValue(defaultStr) ==
    IF toUpperCase(defaultStr) = "NULL" THEN [ kind |-> "null" ]
    ELSE IF defaultStr = "TRUE" \/ defaultStr = "FALSE"
    THEN [ kind |-> "boolean", bool |-> (defaultStr = "TRUE") ]
    ELSE IF isNumeric(defaultStr)
    THEN [ kind |-> "number", num |-> parseInt(defaultStr)[1] ]
    ELSE IF isInfinite(defaultStr)
    THEN [ kind |-> "infinity", negative |-> (defaultStr = "-Infinity") ]
    ELSE [ kind |-> "string", str |-> removeChars(defaultStr, {"'", "\""}) ]

\* the SERIAL family of a column: the type it stands for, "" for none
serialType(upperStatement) ==
    IF ~(\/ includes(upperStatement, "SERIAL")
         \/ includes(upperStatement, "BIGSERIAL")
         \/ includes(upperStatement, "SMALLSERIAL")) THEN ""
    ELSE IF includes(upperStatement, "BIGSERIAL") THEN "BIGINT"
    ELSE IF includes(upperStatement, "SMALLSERIAL") THEN "SMALLINT"
    ELSE "INTEGER"

\* typeMatch[2] ? typeMatch[2].split(',').map(p => p.trim()) : []
typeParams(tm) ==
    LET each(ps) == [ k \in 1..Len(ps) |-> trim(ps[k]) ]
    IN  IF tm.p # 0 /\ HasGroup(tm, 2) /\ Group(tm, 2) # "" THEN each(split(Group(tm, 2)))
        ELSE << >>

isAutoIncrement(upperStatement) ==
    \/ includes(upperStatement, "AUTO_INCREMENT")
    \/ includes(upperStatement, "AUTOINCREMENT")
    \/ includes(upperStatement, "IDENTITY")
    \/ includes(upperStatement, "GENERATED BY DEFAULT AS IDENTITY")
    \/ includes(upperStatement, "GENERATED ALWAYS AS IDENTITY")

parseColumnDefinition(statement, dialect) ==
    LET column(trimmed, upperStatement, name, actualType, tm, params, dm) ==
            IF name.p = 0
            THEN Throw("Unable to parse column name for: " \o statement)
            ELSE IF tm.p = 0 /\ actualType = ""
            THEN Throw("Unable to parse column type for: " \o statement)
            ELSE Ok([ name |-> cleanIdentifier(Group(name, 1)),
                      type |-> [ type   |-> IF actualType # "" THEN actualType
                                            ELSE IF tm.p # 0 THEN toUpperCase(Group(tm, 1))
                                            ELSE "VARCHAR",
                                 length |-> IF Len(params) >= 1 THEN parseInt(params[1]) ELSE None,
                                 scale  |-> IF Len(params) >= 2 THEN parseInt(params[2]) ELSE None ],
                      nullable |-> ~includes(upperStatement, "NOT NULL"),
                      autoIncrement |-> actualType # "" \/ isAutoIncrement(upperStatement),
                      default |-> IF dm.p = 0 THEN None ELSE Some(defaultValue(Group(dm, 1))) ])
        typed(trimmed, upperStatement, tm) ==
            column(trimmed, upperStatement, nameMatch(trimmed), serialType(upperStatement),
                   tm, typeParams(tm), defaultMatch(statement))
        upper(trimmed, upperStatement) == typed(trimmed, upperStatement, typeMatch(trimmed))
    IN  upper(trim(statement), toUpperCase(statement))

\* a faulty variant of the normalisation below: the case is kept as written
ActionTextAsWritten(text) == collapseWhitespace(text)

\* group.replace(/\s+/g, ' ').toUpperCase() of the group of an action
ActionText(text) == toUpperCase(collapseWhitespace(text))

(***************************************************************************)
(* DdlParserService.parsePrimaryKey                                        *)
\*   /PRIMARY\s+KEY\s*\(([^)]+)\)/i
(***************************************************************************)
primaryKeyAt(s, i) == ParenGroup(Spaces(Words(Begin(s, i), << "PRIMARY", "KEY" >>)))

parsePrimaryKey(statement) ==
    LET columns(match) == IF match.p = 0 THEN << >> ELSE cleanIdentifierList(Group(match, 1))
    IN  columns(Search(primaryKeyAt, statement))

(***************************************************************************)
(* DdlParserService.parseUniqueKey                                         *)
\*   /UNIQUE\s*(?:KEY\s*)?\(([^)]+)\)/i
(***************************************************************************)
uniqueKeyAt(s, i) ==
    LET list(u) == OrElse(ParenGroup(Spaces(Lit(u, "KEY"))), ParenGroup(u))
    IN  list(Spaces(Lit(Begin(s, i), "UNIQUE")))

parseUniqueKey(statement) ==
    LET columns(match) == IF match.p = 0 THEN << >> ELSE cleanIdentifierList(Group(match, 1))
    IN  columns(Search(uniqueKeyAt, statement))

(***************************************************************************)
(* DdlParserService.parseForeignKey                                        *)
\*   /FOREIGN\s+KEY\s*\(([^)]+)\)\s*REFERENCES\s+([^\s(]+)\s*\(([^)]+)\)/i
\*   /ON\s+UPDATE\s+(CASCADE|SET\s+NULL|SET\s+DEFAULT|RESTRICT|NO\s+ACTION)/i
\*   /ON\s+DELETE\s+(CASCADE|SET\s+NULL|SET\s+DEFAULT|RESTRICT|NO\s+ACTION)/i
(***************************************************************************)
\* REFERENCES\s+([^\s(]+)\s*\(([^)]+)\)
references(m) ==
    ParenGroup(Spaces(Mark(ManyNot1(Mark(Spaces1(Lit(m, "REFERENCES"))), SpaceSet \cup {"("}))))

\* groups: 1 the columns, 2 the referenced table, 3 the referenced columns
foreignKeyAt(s, i) ==
    references(Spaces(ParenGroup(Spaces(Words(Begin(s, i), << "FOREIGN", "KEY" >>)))))

onUpdateAt(s, i) == ActionGroup(Spaces1(Words(Begin(s, i), << "ON", "UPDATE" >>)))

onDeleteAt(s, i) == ActionGroup(Spaces1(Words(Begin(s, i), << "ON", "DELETE" >>)))

parseForeignKey(statement) ==
    LET key(columns, referencedTable, referencedColumns, onUpdateMatch, onDeleteMatch) ==
            [ name |-> "fk_" \o join(columns, "_") \o "_" \o referencedTable,
              columns |-> columns,
              referencedTable |-> referencedTable,
              referencedColumns |-> referencedColumns,
              onUpdate |-> IF onUpdateMatch.p # 0
                           THEN Some(ActionText(Group(onUpdateMatch, 1))) ELSE None,
              onDelete |-> IF onDeleteMatch.p # 0
                           THEN Some(ActionText(Group(onDeleteMatch, 1))) ELSE None ]
        matched(fkMatch) ==
            IF fkMatch.p = 0 THEN Throw("Invalid foreign key syntax: " \o statement)
            ELSE Ok(key(cleanIdentifierList(Group(fkMatch, 1)),
                        cleanIdentifier(Group(fkMatch, 2)),
                        cleanIdentifierList(Group(fkMatch, 3)),
                        Search(onUpdateAt, statement),
                        Search(onDeleteAt, statement)))
    IN  matched(Search(foreignKeyAt, statement))

(***************************************************************************)
(* DdlParserService.isIndexDefinition, parseIndexDefinition                *)
\*   /(INDEX|KEY)\s+([^\s(]+)\s*\(([^)]+)\)/i
(***************************************************************************)
isIndexDefinition(statement) ==
    LET either(trimmed) == startsWith(trimmed, "INDEX") \/ startsWith(trimmed, "KEY")
    IN  either(toUpperCase(trim(statement)))

\* groups (after the keyword): 1 the name, 2 the columns
indexAt(s, i) ==
    LET named(k) == ParenGroup(Spaces(Mark(ManyNot1(Mark(Spaces1(k)), SpaceSet \cup {"("}))))
        keyword(m) == named(OrElse(Lit(m, "INDEX"), Lit(m, "KEY")))
    IN  keyword(Begin(s, i))

parseIndexDefinition(statement) ==
    LET index(indexMatch) ==
            IF indexMatch.p = 0 THEN Throw("Invalid index syntax: " \o statement)
            ELSE Ok([ name |-> cleanIdentifier(Group(indexMatch, 1)),
                      type |-> "INDEX",
                      columns |-> cleanIdentifierList(Group(indexMatch, 2)),
                      unique |-> FALSE ])
    IN  index(Search(indexAt, statement))

(***************************************************************************)
(* The inline foreign key of a column definition (parseTableDefinition)    *)
\*   /REFERENCES\s+([^\s(]+)\s*\(([^)]+)\)
\*    (?:\s+ON\s+DELETE\s+(CASCADE|SET\s+NULL|SET\s+DEFAULT|RESTRICT|NO\s+ACTION))?
\*    (?:\s+ON\s+UPDATE\s+(CASCADE|SET\s+NULL|SET\s+DEFAULT|RESTRICT|NO\s+ACTION))?/i
(* groups: 1 the referenced table, 2 the referenced column, 3 the ON       *)
(* DELETE action, 4 the ON UPDATE action                                   *)
(***************************************************************************)
inlineFkAt(s, i) ==
    LET onUpdate(m) ==
            OrElse(ActionGroup(Spaces1(Words(Spaces1(m), << "ON", "UPDATE" >>))), Skip(m))
        onDelete(m) ==
            OrElse(ActionGroup(Spaces1(Words(Spaces1(m), << "ON", "DELETE" >>))), Skip(m))
    IN  onUpdate(onDelete(references(Begin(s, i))))

inlineForeignKey(tableName, column, trimmed) ==
    LET fk(inlineFkMatch) ==
            IF inlineFkMatch.p = 0 THEN << >>
            ELSE << [ name |-> "fk_" \o tableName \o "_" \o column.name,
                      columns |-> << column.name >>,
                      referencedTable |-> cleanIdentifier(Group(inlineFkMatch, 1)),
                      referencedColumns |-> << cleanIdentifier(Group(inlineFkMatch, 2)) >>,
                      onUpdate |-> IF HasGroup(inlineFkMatch, 4)
                                   THEN Some(ActionText(Group(inlineFkMatch, 4))) ELSE None,
                      onDelete |-> IF HasGroup(inlineFkMatch, 3)
                                   THEN Some(ActionText(Group(inlineFkMatch, 3))) ELSE None ] >>
    IN  fk(Search(inlineFkAt, trimmed))

(***************************************************************************)
(* DdlParserService.parseTableDefinition                                   *)
(***************************************************************************)
\* the collections of parseTableDefinition before its loop
EmptyTableParts ==
    [ columns |-> << >>, indexes |-> << >>, foreignKeys |-> << >>,
      primaryKey |-> << >>, uniqueKeys |-> << >> ]

\* what a parsed clause adds: Ok(the collections with it), or what was thrown
withColumn(parts, column, tableName, trimmed) ==
    IF column.error THEN column
    ELSE Ok([ parts EXCEPT
                !.columns = Append(@, column.value),
                !.foreignKeys = @ \o inlineForeignKey(tableName, column.value, trimmed) ])

withForeignKey(parts, foreignKey) ==
    IF foreignKey.error THEN foreignKey
    ELSE Ok([ parts EXCEPT !.foreignKeys = Append(@, foreignKey.value) ])

withIndex(parts, index) ==
    IF index.error THEN index
    ELSE Ok([ parts EXCEPT !.indexes = Append(@, index.value) ])

\* one iteration of the loop over the statements of the table body:
\* Ok(the collections after it), or what the iteration throws
parseTableStatement(tableName, statement, parts, dialect, options) ==
    LET clause(trimmed, upper) ==
            IF isColumnDefinition(trimmed)
            THEN withColumn(parts, parseColumnDefinition(trimmed, dialect), tableName, trimmed)
            ELSE IF startsWith(upper, "PRIMARY KEY")
            THEN Ok([ parts EXCEPT !.primaryKey = parsePrimaryKey(trimmed) ])
            ELSE IF startsWith(upper, "UNIQUE")
            THEN Ok([ parts EXCEPT !.uniqueKeys = Append(@, parseUniqueKey(trimmed)) ])
            ELSE IF startsWith(upper, "FOREIGN KEY")
            THEN withForeignKey(parts, parseForeignKey(trimmed))
            ELSE IF options.includeIndexes /\ isIndexDefinition(trimmed)
            THEN withIndex(parts, parseIndexDefinition(trimmed))
            ELSE Ok(parts)
        trimmedClause(trimmed) == clause(trimmed, toUpperCase(trimmed))
    IN  trimmedClause(trim(statement))

\* the loop from statement k on
RECURSIVE parseTableStatementsFrom(_, _, _, _, _, _)
parseTableStatementsFrom(tableName, statements, k, parts, dialect, options) ==
    LET next(step) ==
            IF step.error THEN step
            ELSE parseTableStatementsFrom(tableName, statements, k + 1, step.value,
                                          dialect, options)
    IN  IF k > Len(statements) THEN Ok(parts)
        ELSE next(parseTableStatement(tableName, statements[k], parts, dialect, options))

\* col => col.autoIncrement || (col.name.toLowerCase().includes('id') && !col.nullable)
isPkColumn(col) ==
    col.autoIncrement \/ (includes(toLowerCase(col.name), "id") /\ ~col.nullable)

\* a faulty variant of the detection below: the first candidate is taken
\* however many there are
firstDetectedPrimaryKey(primaryKey, pkColumns) ==
    IF Len(primaryKey) = 0 /\ Len(pkColumns) >= 1 THEN << pkColumns[1].name >>
    ELSE primaryKey

\* the primary key after the auto-detection from the columns
detectedPrimaryKey(primaryKey, pkColumns) ==
    IF Len(primaryKey) = 0 /\ Len(pkColumns) = 1 THEN << pkColumns[1].name >>
    ELSE primaryKey

\* primaryKey.length > 0 ? primaryKey : undefined
definedKey(primaryKey) == IF Len(primaryKey) > 0 THEN Some(primaryKey) ELSE None

parseTableDefinition(tableName, tableBody, dialect, options) ==
    LET table(parts) ==
            [ name |-> tableName,
              columns |-> parts.columns,
              primaryKey |-> definedKey(detectedPrimaryKey(parts.primaryKey,
                                                          SelectSeq(parts.columns, isPkColumn))),
              uniqueKeys |-> parts.uniqueKeys,
              indexes |-> parts.indexes,
              foreignKeys |-> parts.foreignKeys ]
        done(loop) == IF loop.error THEN loop ELSE Ok(table(loop.value))
    IN  done(parseTableStatementsFrom(tableName, splitTableStatements(tableBody), 1,
                                      EmptyTableParts, dialect, options))

(***************************************************************************)
(* DialectDetectionService.  Scores are kept in tenths (a keyword 10, a    *)
(* function 8, a quote style 3, a strong indicator 20) and the confidence  *)
(* in hundredths, so that the arithmetic is on integers.                   *)
(***************************************************************************)
Dialects == << "mysql", "postgres", "mssql", "sqlite", "oracle" >>

DIALECT_PATTERNS ==
    [ mysql |->
        [ keywords |-> << "ENGINE=", "AUTO_INCREMENT", "CHARSET=", "COLLATE=", "UNSIGNED",
                          "ZEROFILL", "TINYINT", "MEDIUMINT", "LONGTEXT", "MEDIUMTEXT",
                          "TINYTEXT", "ENUM(", "SET(", "BINARY(", "VARBINARY(", "YEAR(",
                          "IF NOT EXISTS", "COMMENT=", "KEY ", "FULLTEXT", "SPATIAL" >>,
          functions |-> << "NOW()", "CURDATE()", "CURTIME()", "UUID()" >>,
          quotes |-> << Backtick >> ],
      postgres |->
        [ keywords |-> << "SERIAL", "BIGSERIAL", "SMALLSERIAL", "BYTEA", "JSONB", "UUID",
                          "INET", "CIDR", "MACADDR", "TSQUERY", "TSVECTOR", "INTERVAL",
                          "ARRAY", "CONSTRAINT", "INHERITS", "TABLESPACE", "OWNER TO",
                          "TEMPLATE", "ENCODING", "LC_COLLATE", "LC_CTYPE" >>,
          functions |-> << "CURRENT_TIMESTAMP", "CURRENT_DATE", "CURRENT_TIME",
                           "GEN_RANDOM_UUID()" >>,
          quotes |-> << "\"" >> ],
      mssql |->
        [ keywords |-> << "IDENTITY(", "NVARCHAR", "NCHAR", "NTEXT", "UNIQUEIDENTIFIER",
                          "DATETIME2", "DATETIMEOFFSET", "HIERARCHYID", "GEOGRAPHY",
                          "GEOMETRY", "XML", "MONEY", "SMALLMONEY", "ROWVERSION",
                          "TIMESTAMP", "IMAGE", "CLUSTERED", "NONCLUSTERED", "FILEGROUP",
                          "COLLATE" >>,
          functions |-> << "GETDATE()", "GETUTCDATE()", "NEWID()", "SYSDATETIME()" >>,
          quotes |-> << "[", "]" >> ],
      sqlite |->
        [ keywords |-> << "AUTOINCREMENT", "WITHOUT ROWID", "STRICT", "IF NOT EXISTS",
                          "TEMP", "TEMPORARY" >>,
          functions |-> << "DATETIME()", "DATE()", "TIME()", "RANDOM()" >>,
          quotes |-> << "[", "]", "\"" >> ],
      oracle |->
        [ keywords |-> << "NUMBER(", "VARCHAR2", "NVARCHAR2", "CLOB", "NCLOB", "BLOB",
                          "BFILE", "ROWID", "UROWID", "XMLType", "TIMESTAMP WITH TIME ZONE",
                          "TIMESTAMP WITH LOCAL TIME ZONE", "INTERVAL YEAR TO MONTH",
                          "INTERVAL DAY TO SECOND", "BINARY_FLOAT", "BINARY_DOUBLE",
                          "TABLESPACE", "ORGANIZATION INDEX", "COMPRESS", "NOCOMPRESS" >>,
          functions |-> << "SYSDATE", "SYSTIMESTAMP", "SYS_GUID()", "CURRENT_TIMESTAMP" >>,
          quotes |-> << "\"" >> ] ]

KeywordWeight == 10

FunctionWeight == 8

QuoteWeight == 3

StrongWeight == 20

\* the keywords (functions) of a list that the text includes
Hits(list, text) == SelectSeq(list, LAMBDA k : includes(text, toUpperCase(k)))

\* the strong indicator of each dialect (applyAdditionalHeuristics)
StrongIndicators ==
    [ mysql    |-> << "ENGINE=", "AUTO_INCREMENT" >>,
      postgres |-> << "SERIAL", "JSONB", "::" >>,
      mssql    |-> << "IDENTITY(", "NVARCHAR", "[DBO]" >>,
      sqlite   |-> << "AUTOINCREMENT", "WITHOUT ROWID" >>,
      oracle   |-> << "NUMBER(", "VARCHAR2", "SYSDATE" >> ]

StrongReason ==
    [ mysql    |-> "Strong MySQL indicators found",
      postgres |-> "Strong PostgreSQL indicators found",
      mssql    |-> "Strong SQL Server indicators found",
      sqlite   |-> "Strong SQLite indicators found",
      oracle   |-> "Strong Oracle indicators found" ]

\* a faulty variant of the test below: the strong indicators are never found
hasStrongIgnored(d, normalizedSql) == FALSE

\* whether one of the strong indicators of dialect d occurs in the text
hasStrong(d, normalizedSql) == Len(Hits(StrongIndicators[d], normalizedSql)) > 0

\* sql.toUpperCase().replace(/\s+/g, ' ').trim()
normalize(sql) == trim(collapseWhitespace(toUpperCase(sql)))

\* scores[d] after the loop over DIALECT_PATTERNS
patternScore(d, sql, normalizedSql) ==
    KeywordWeight * Len(Hits(DIALECT_PATTERNS[d].keywords, normalizedSql))
    + FunctionWeight * Len(Hits(DIALECT_PATTERNS[d].functions, normalizedSql))
    + QuoteWeight * Len(SelectSeq(DIALECT_PATTERNS[d].quotes, LAMBDA q : includes(sql, q)))

\* the reasons the loop pushes for dialect d
patternReasons(d, normalizedSql) ==
    LET found(kw, fn) ==
            [ k \in 1..Len(kw) |-> "Found " \o toUpperCase(d) \o " keyword: " \o kw[k] ]
            \o [ k \in 1..Len(fn) |-> "Found " \o toUpperCase(d) \o " function: " \o fn[k] ]
    IN  found(Hits(DIALECT_PATTERNS[d].keywords, normalizedSql),
              Hits(DIALECT_PATTERNS[d].functions, normalizedSql))

\* scores after applyAdditionalHeuristics
scoresOf(sql, normalizedSql) ==
    [ k \in 1..Len(Dialects) |->
        patternScore(Dialects[k], sql, normalizedSql)
        + (IF hasStrong(Dialects[k], normalizedSql) THEN StrongWeight ELSE 0) ]

dialectScores(sql) == scoresOf(sql, normalize(sql))

GenericKeywords == << "CREATE TABLE", "PRIMARY KEY", "FOREIGN KEY", "NOT NULL" >>

\* the concatenation of a sequence of sequences
RECURSIVE Flatten(_)
Flatten(seqs) == IF seqs = << >> THEN << >> ELSE Head(seqs) \o Flatten(Tail(seqs))

strongReasons(d, normalizedSql) ==
    IF hasStrong(d, normalizedSql) THEN << StrongReason[d] >> ELSE << >>

\* the reasons after applyAdditionalHeuristics
reasonsOf(normalizedSql, scores) ==
    Flatten([ k \in 1..Len(Dialects) |-> patternReasons(Dialects[k], normalizedSql) ])
    \o Flatten([ k \in 1..Len(Dialects) |-> strongReasons(Dialects[k], normalizedSql) ])
    \o (IF /\ Len(Hits(GenericKeywords, normalizedSql)) = Len(GenericKeywords)
           /\ \A k \in 1..Len(Dialects) : scores[k] < 10
        THEN << "Only generic SQL keywords found" >> ELSE << >>)

dialectReasons(sql) == reasonsOf(normalize(sql), dialectScores(sql))

MaxOf(scores) == CHOOSE m \in { scores[k] : k \in 1..Len(scores) } :
                     \A k \in 1..Len(scores) : scores[k] <= m

RECURSIVE SumOf(_)
SumOf(scores) == IF scores = << >> THEN 0 ELSE Head(scores) + SumOf(Tail(scores))

\* Math.round(x) of the fraction num / den (den > 0, num >= 0)
RoundDiv(num, den) == (2 * num + den) \div (2 * den)

\* Math.max(totalScore * 0.7, 1), times 100 on scores in tenths:
\* maxScore / Math.max(totalScore * 0.7, 1) = 10 * maxScore / denominator
denominatorOf(totalScore) == IF 7 * totalScore > 100 THEN 7 * totalScore ELSE 100

\* Object.entries(scores).find(([_, score]) => score === maxScore)
firstWith(scores, maxScore) ==
    Dialects[CHOOSE k \in 1..Len(Dialects) :
                 /\ scores[k] = maxScore
                 /\ \A j \in 1..(k - 1) : scores[j] # maxScore]

\* the detection from the scores: confidence in hundredths
detectionOf(scores, maxScore, totalScore, denominator, reasons) ==
    [ dialect |-> IF totalScore > 0 /\ (10 * maxScore >= denominator
                                        \/ 100 * maxScore > 3 * denominator)
                  THEN firstWith(scores, maxScore) ELSE "unknown",
      confidence |-> IF totalScore = 0 THEN 0
                     ELSE IF 10 * maxScore >= denominator THEN 100
                     ELSE RoundDiv(1000 * maxScore, denominator),
      reasons |-> SubSeq(reasons, 1, IF Len(reasons) < 10 THEN Len(reasons) ELSE 10) ]

detectDialect(sql) ==
    LET scored(normalizedSql, scores) ==
            detectionOf(scores, MaxOf(scores), SumOf(scores), denominatorOf(SumOf(scores)),
                        reasonsOf(normalizedSql, scores))
        normalized(normalizedSql) == scored(normalizedSql, scoresOf(sql, normalizedSql))
    IN  normalized(normalize(sql))

forceDialect(dialect) ==
    [ dialect |-> dialect, confidence |-> 100,
      reasons |-> << "Dialect manually specified as " \o toUpperCase(dialect) >> ]

(***************************************************************************)
(* The SQL texts parseDdl is called with.  A text is written as a sequence *)
(* of statements, one per line; a statement records how it was written:    *)
(*   create, closed  a CREATE TABLE statement, with its closing parenthesis*)
(*   name, body      the table name and the text between the parentheses   *)
(*   text            the text of a statement that is no CREATE TABLE       *)
(*   failure         the message of the error its first bad clause raises  *)
(*   needsIndexes    the bad clause is an INDEX/KEY clause                 *)
(*   pk              the column written with an inline PRIMARY KEY marker, *)
(*                   when there is one and no PRIMARY KEY clause           *)
(*   fk              the parts of its FOREIGN KEY clause                   *)
(*   ref             the parts of its column with an inline REFERENCES     *)
(***************************************************************************)
MaxStatements == 2

Statement(name, body, closed, failure, needsIndexes, pk, fk, ref) ==
    [ create |-> TRUE, name |-> name, body |-> body, closed |-> closed, text |-> "",
      failure |-> failure, needsIndexes |-> needsIndexes, pk |-> pk, fk |-> fk,
      ref |-> ref ]

TableStatement(name, body, pk) ==
    Statement(name, body, TRUE, None, FALSE, pk, None, None)

FailingStatement(name, body, failure, needsIndexes) ==
    Statement(name, body, TRUE, Some(failure), needsIndexes, None, None, None)

OtherText(text) ==
    [ create |-> FALSE, name |-> "", body |-> "", closed |-> FALSE, text |-> text,
      failure |-> None, needsIndexes |-> FALSE, pk |-> None, fk |-> None, ref |-> None ]

\* the referential actions as written after a REFERENCES, and what they say
ActionsWritten ==
    { [ text |-> "", onDelete |-> None, onUpdate |-> None ],
      [ text |-> " ON DELETE CASCADE", onDelete |-> Some("CASCADE"), onUpdate |-> None ],
      [ text |-> " on update set null", onDelete |-> None, onUpdate |-> Some("SET NULL") ],
      [ text |-> " ON DELETE SET DEFAULT ON UPDATE RESTRICT",
        onDelete |-> Some("SET DEFAULT"), onUpdate |-> Some("RESTRICT") ],
      [ text |-> " ON UPDATE NO ACTION ON DELETE CASCADE",
        onDelete |-> Some("CASCADE"), onUpdate |-> Some("NO ACTION") ] }

\* the column lists of the FOREIGN KEY clauses, with the columns they reference
ForeignKeyColumns ==
    { [ columns |-> << "a_id" >>, referencedColumns |-> << "id" >> ],
      [ columns |-> << "a_id", "b_id" >>, referencedColumns |-> << "id", "code" >> ],
      [ columns |-> << "b_id", "a_id" >>, referencedColumns |-> << "code", "id" >> ] }

\* identifiers are written bare or between backticks
QuoteStyles == { "", Backtick }

quoted(names, q) == [ k \in 1..Len(names) |-> q \o names[k] \o q ]

\* CREATE TABLE child (<the columns>, FOREIGN KEY (<cols>) REFERENCES users(<refcols>) ...)
ForeignKeyStatement(cols, q, actions) ==
    Statement("child",
              join([ k \in 1..Len(cols.columns) |-> q \o cols.columns[k] \o q \o " INT" ], ", ")
                  \o ", FOREIGN KEY (" \o join(quoted(cols.columns, q), ", ")
                  \o ") REFERENCES " \o q \o "users" \o q
                  \o "(" \o join(quoted(cols.referencedColumns, q), ", ") \o ")"
                  \o actions.text,
              TRUE, None, FALSE, None,
              Some([ columns |-> cols.columns, referencedTable |-> "users",
                     referencedColumns |-> cols.referencedColumns,
                     onDelete |-> actions.onDelete, onUpdate |-> actions.onUpdate ]),
              None)

ForeignKeyStatements ==
    { ForeignKeyStatement(cols, q, actions) :
          cols \in ForeignKeyColumns, q \in QuoteStyles, actions \in ActionsWritten }

\* CREATE TABLE posts (id INT NOT NULL, user_id INT REFERENCES users(id) ...)
InlineReferenceStatement(actions) ==
    Statement("posts",
              "id INT NOT NULL, user_id INT REFERENCES users(id)" \o actions.text,
              TRUE, None, FALSE, None, None,
              Some([ column |-> "user_id", referencedTable |-> "users",
                     referencedColumn |-> "id",
                     onDelete |-> actions.onDelete, onUpdate |-> actions.onUpdate ]))

InlineReferenceStatements == { InlineReferenceStatement(actions) : actions \in ActionsWritten }

\* the statements the texts of several statements are made of
StatementCatalogue ==
    { TableStatement("users", "id INT AUTO_INCREMENT PRIMARY KEY, name VARCHAR(50) NOT NULL",
                     Some("id")),
      Statement("posts", "id SERIAL, user_id INT, FOREIGN KEY (user_id) REFERENCES users(id) ON DELETE CASCADE",
                TRUE, None, FALSE, None,
                Some([ columns |-> << "user_id" >>, referencedTable |-> "users",
                       referencedColumns |-> << "id" >>,
                       onDelete |-> Some("CASCADE"), onUpdate |-> None ]),
                None),
      FailingStatement("orders", "id INT NOT NULL, FOREIGN KEY user_id REFERENCES users",
                       "Invalid foreign key syntax: FOREIGN KEY user_id REFERENCES users", FALSE),
      FailingStatement("items", "id INT NOT NULL, name",
                       "Unable to parse column type for: name", FALSE),
      Statement("invalid", "", FALSE, None, FALSE, None, None, None) }

\* the statements of the texts of one statement only
SingleStatements ==
    { FailingStatement("tags", "tag_id INT NOT NULL, label VARCHAR(20), KEY broken",
                       "Invalid index syntax: KEY broken", TRUE),
      TableStatement("codes", "code VARCHAR(10) PRIMARY KEY, label VARCHAR(50)", Some("code")),
      TableStatement("links", "id INT NOT NULL, PRIMARY KEY (missing)", None),
      TableStatement("accounts", "id INT NOT NULL, email VARCHAR(50) DEFAULT 'none', UNIQUE (email), KEY idx_email (email)",
                     None),
      OtherText("INVALID SQL STATEMENT"),
      OtherText("-- CREATE TABLE old (id INT);\n/* CREATE TABLE gone (id INT); */") }
        \cup ForeignKeyStatements \cup InlineReferenceStatements

\* the text of one statement
StatementText(st) ==
    IF ~st.create THEN st.text
    ELSE "CREATE TABLE " \o st.name \o " (" \o st.body \o (IF st.closed THEN ");" ELSE "")

\* the SQL text of a sequence of statements, one per line
SqlText(sts) == join([ k \in 1..Len(sts) |-> StatementText(sts[k]) ], "\n")

\* the sequences of 1..n elements of set S
SeqsUpTo(S, n) == UNION { [ 1..k -> S ] : k \in 1..n }

StatementInputs ==
    SeqsUpTo(StatementCatalogue, MaxStatements) \cup { << st >> : st \in SingleStatements }

\* texts without any statement
BlankTexts == { "", " ", " \n\t " }

\* the options argument: a field is None when the caller leaves it out
OptionInputs ==
    [ inferDialect   : { None, Some(FALSE) },
      includeIndexes : { None, Some(FALSE) },
      includeActions : { None },
      strict         : { None, Some(TRUE) } ]

DialectInputs == { None, Some("mysql") }

(***************************************************************************)
(* The state of one call of DdlParserService.parseDdl.                     *)
(***************************************************************************)
VARIABLES
    stmts,          \* how the SQL text was written (a sequence of statement records)
    sql,            \* argument sql
    dialect,        \* argument dialect (None: undefined)
    options,        \* argument options
    pc,             \* where the call is
    mergedOptions,  \* mergedOptions
    detection,      \* detection: the result of detectDialect, None while not called
    actualDialect,  \* actualDialect (None: undefined)
    cleaned,        \* cleanSql
    lastIndex,      \* createTableRegex.lastIndex, as the position to search from
    current,        \* tableName and tableBody of the statement being parsed
    outcome,        \* what parseTableDefinition returned or threw for it
    tables,         \* tables of parseTableStatements
    parsed,         \* the names parseTableDefinition was called with, in order
    log,            \* what was written with process.stdout.write
    result,         \* None while the call runs, then <<Ok(schema)>> or <<Throw(message)>>
    response,       \* what POST /api/parse answered, None while it has not
    parsedData,     \* the schema object a caller of the formatters holds, None before
    outputs,        \* what the formatters returned for it, in the order of the calls
    calls,          \* the invocations that run side by side, each with its own locals
    regexIndex,     \* lastIndex of every createTableRegex object that was created
    dialectPatterns,   \* DIALECT_PATTERNS[d].score, the one field detectDialect writes
    app,            \* the state of the front end's AppContext
    requests,       \* the handleParseSQL calls that await the parse service
    banner          \* the ErrorBanner component: its effect, refs and timers

vars == << stmts, sql, dialect, options, pc, mergedOptions, detection, actualDialect,
           cleaned, lastIndex, current, outcome, tables, parsed, log, result,
           response, parsedData, outputs, calls, regexIndex, dialectPatterns,
           app, requests, banner >>

inputs == << stmts, sql, dialect, options >>

scanState == << cleaned, lastIndex, current, outcome, tables, parsed, log >>

\* the state of the callers of parseDdl: the route and the users of the formatters
caller == << response, parsedData, outputs >>

\* the invocations that run side by side, and the front end
apart == << calls, regexIndex, dialectPatterns, app, requests, banner >>

\* no caller has acted
NoCaller == response = None /\ parsedData = None /\ outputs = << >>

\* DIALECT_PATTERNS as written: score: 0 in every entry
initialPatternScore == [ d \in { "mysql", "postgres", "mssql", "sqlite", "oracle" } |-> 0 ]

\* initialState of the AppContext, with the theme light
initialState ==
    [ currentSQL |-> "", parsedData |-> None, diagram |-> None,
      selectedDialect |-> "mysql", isLoading |-> FALSE, error |-> None,
      theme |-> "light" ]

\* the ErrorBanner is not mounted, no timer is set, no error was shown
NoBanner ==
    [ mounted |-> FALSE, visible |-> FALSE, frame |-> FALSE, autoDismissRef |-> None,
      cleanupRef |-> None, timers |-> { }, age |-> 0, dismissedAt |-> None ]

\* nothing runs side by side and the front end was not used
Quiet ==
    /\ calls = << >>
    /\ regexIndex = << >>
    /\ dialectPatterns = initialPatternScore
    /\ app = initialState
    /\ requests = << >>
    /\ banner = NoBanner

Init ==
    /\ stmts \in StatementInputs \cup { << >> }
    /\ sql \in IF stmts = << >> THEN BlankTexts ELSE { SqlText(stmts) }
    /\ dialect \in DialectInputs
    /\ options \in OptionInputs
    /\ pc = "start"
    /\ mergedOptions = None
    /\ detection = None
    /\ actualDialect = None
    /\ cleaned = ""
    /\ lastIndex = 1
    /\ current = None
    /\ outcome = None
    /\ tables = << >>
    /\ parsed = << >>
    /\ log = << >>
    /\ result = None
    /\ NoCaller
    /\ Quiet

\* options.x !== false
notFalse(field) == field # Some(FALSE)

\* options.x === true
isTrue(field) == field = Some(TRUE)

mergeOptions(opts) ==
    [ inferDialect   |-> notFalse(opts.inferDialect),
      includeIndexes |-> notFalse(opts.includeIndexes),
      includeActions |-> notFalse(opts.includeActions),
      strict         |-> isTrue(opts.strict) ]

\* a faulty variant of the test below: the text is not trimmed
isEmptyString(text) == text = ""

\* !sql || sql.trim().length === 0
isEmptySql(text) == text = "" \/ Len(trim(text)) = 0

\* throw new Error('SQL cannot be empty')
RejectEmpty ==
    /\ pc = "start"
    /\ isEmptySql(sql)
    /\ result' = Some(Throw("SQL cannot be empty"))
    /\ pc' = "done"
    /\ UNCHANGED << inputs, apart, caller, mergedOptions, detection, actualDialect, scanState >>

\* const mergedOptions = ...
MergeOptions ==
    /\ pc = "start"
    /\ ~isEmptySql(sql)
    /\ mergedOptions' = Some(mergeOptions(options))
    /\ pc' = "dialect"
    /\ UNCHANGED << inputs, apart, caller, detection, actualDialect, scanState, result >>

\* a faulty variant of the assignment below: unknown is taken for a dialect
detectedDialectUnchecked(d) == Some(d.dialect)

\* if (detection.dialect !== 'unknown') actualDialect = detection.dialect
detectedDialect(d) == IF d.dialect # "unknown" THEN Some(d.dialect) ELSE None

\* if (!actualDialect && mergedOptions.inferDialect): detectDialect on the sql argument
DetectDialect ==
    /\ pc = "dialect"
    /\ dialect = None /\ mergedOptions[1].inferDialect
    /\ LET detected(d) ==
               /\ detection' = Some(d)
               /\ actualDialect' = detectedDialect(d)
       IN  detected(detectDialect(sql))
    /\ pc' = "resolved"
    /\ UNCHANGED << inputs, apart, caller, mergedOptions, scanState, result >>

\* let actualDialect = dialect, and the detection is not entered
KeepDialect ==
    /\ pc = "dialect"
    /\ ~(dialect = None /\ mergedOptions[1].inferDialect)
    /\ actualDialect' = dialect
    /\ pc' = "resolved"
    /\ UNCHANGED << inputs, apart, caller, mergedOptions, detection, scanState, result >>

\* if (!actualDialect) throw
RejectDialect ==
    /\ pc = "resolved"
    /\ actualDialect = None
    /\ result' = Some(Throw("Unable to determine SQL dialect. Please specify dialect explicitly."))
    /\ pc' = "done"
    /\ UNCHANGED << inputs, apart, caller, mergedOptions, detection, actualDialect, scanState >>

\* const cleanSql = this.cleanSql(sql), and parseTableStatements starts
CleanSql ==
    /\ pc = "resolved"
    /\ actualDialect # None
    /\ cleaned' = cleanSql(sql)
    /\ lastIndex' = 1
    /\ tables' = << >>
    /\ pc' = "scan"
    /\ UNCHANGED << inputs, apart, caller, mergedOptions, detection, actualDialect, current, outcome,
                    parsed, log, result >>

(***************************************************************************)
(* DdlParserService.parseTableStatements: the loop                         *)
(*   while ((match = createTableRegex.exec(sql)) !== null)                 *)
(* one action for exec and the search of the closing parenthesis, one for  *)
(* the awaited call of parseTableDefinition, one for what follows it.      *)
(***************************************************************************)

\* exec returns null: the loop ends
ScanEnd ==
    /\ pc = "scan"
    /\ createTableRegexExec(cleaned, lastIndex).p = 0
    /\ pc' = "finish"
    /\ UNCHANGED << inputs, apart, caller, mergedOptions, detection, actualDialect, scanState, result >>

\* a faulty variant of the position below: the search resumes where the scan
\* for the closing parenthesis stopped
nextSearchAfterScan(match, closing) == closing.i

\* where the next exec of the global regex searches from: after the match,
\* whatever the scan for the closing parenthesis read
nextSearchFrom(match, closing) == match.p

\* a header is found: tableName = cleanIdentifier(match[1]), the scan for the
\* closing parenthesis starts at match.index + match[0].length with depth 1,
\* tableBody = sql.slice(start, i - 1) when it ends with depth 0
ScanStatement ==
    /\ pc = "scan"
    /\ LET scanned(match, closing) ==
               /\ current' = IF closing.depth = 0
                             THEN Some([ tableName |-> cleanIdentifier(Group(match, 1)),
                                         tableBody |-> SubSeq(cleaned, match.p, closing.i - 2) ])
                             ELSE None
               /\ pc' = IF closing.depth = 0 THEN "parse" ELSE "scan"
               /\ lastIndex' = nextSearchFrom(match, closing)
           found(match) == match.p # 0 /\ scanned(match, matchParen(cleaned, match.p, 1))
       IN  found(createTableRegexExec(cleaned, lastIndex))
    /\ UNCHANGED << inputs, apart, caller, mergedOptions, detection, actualDialect, cleaned, outcome,
                    tables, parsed, log, result >>

\* await this.parseTableDefinition(tableName, tableBody, dialect, options)
ParseTableDefinition ==
    /\ pc = "parse"
    /\ outcome' = Some(parseTableDefinition(current[1].tableName, current[1].tableBody,
                                            actualDialect[1], mergedOptions[1]))
    /\ parsed' = Append(parsed, current[1].tableName)
    /\ pc' = "parsed"
    /\ UNCHANGED << inputs, apart, caller, mergedOptions, detection, actualDialect, cleaned, lastIndex,
                    current, tables, log, result >>

\* tables.push(table)
PushTable ==
    /\ pc = "parsed"
    /\ ~outcome[1].error
    /\ tables' = Append(tables, outcome[1].value)
    /\ pc' = "scan"
    /\ UNCHANGED << inputs, apart, caller, mergedOptions, detection, actualDialect, cleaned, lastIndex,
                    current, outcome, parsed, log, result >>

\* a faulty variant of the message below: the message of the error is left out
failureTextWithoutMessage(tableName, message) ==
    "Failed to parse table '" \o tableName \o "'"

\* `Failed to parse table '${tableName}': ${error?.message || 'Unknown error'}`
failureText(tableName, message) ==
    "Failed to parse table '" \o tableName \o "': "
        \o (IF message = "" THEN "Unknown error" ELSE message)

\* catch (error) with options.strict: throw
ThrowFailure ==
    /\ pc = "parsed"
    /\ outcome[1].error
    /\ mergedOptions[1].strict
    /\ result' = Some(Throw(failureText(current[1].tableName, outcome[1].message)))
    /\ pc' = "done"
    /\ UNCHANGED << inputs, apart, caller, mergedOptions, detection, actualDialect, scanState >>

\* catch (error) without options.strict: the warning, and the loop goes on
WarnFailure ==
    /\ pc = "parsed"
    /\ outcome[1].error
    /\ ~mergedOptions[1].strict
    /\ log' = Append(log, "Warning: " \o failureText(current[1].tableName, outcome[1].message)
                              \o "\n")
    /\ pc' = "scan"
    /\ UNCHANGED << inputs, apart, caller, mergedOptions, detection, actualDialect, cleaned, lastIndex,
                    current, outcome, tables, parsed, result >>

\* mergedOptions.strict && tables.length === 0 && hasCreateTable
noTablesInStrictMode(strict, parsedTables, text) ==
    strict /\ Len(parsedTables) = 0 /\ hasCreateTable(text)

RejectNoTables ==
    /\ pc = "finish"
    /\ noTablesInStrictMode(mergedOptions[1].strict, tables, cleaned)
    /\ result' = Some(Throw("Invalid SQL: Unable to parse any valid table definitions in strict mode"))
    /\ pc' = "done"
    /\ UNCHANGED << inputs, apart, caller, mergedOptions, detection, actualDialect, scanState >>

\* return schema
ReturnSchema ==
    /\ pc = "finish"
    /\ ~noTablesInStrictMode(mergedOptions[1].strict, tables, cleaned)
    /\ result' = Some(Ok([ dialect |-> actualDialect[1], tables |-> tables,
                           version |-> "1.0" ]))
    /\ pc' = "done"
    /\ UNCHANGED << inputs, apart, caller, mergedOptions, detection, actualDialect, scanState >>

Next ==
    \/ RejectEmpty
    \/ MergeOptions
    \/ DetectDialect
    \/ KeepDialect
    \/ RejectDialect
    \/ CleanSql
    \/ ScanEnd
    \/ ScanStatement
    \/ ParseTableDefinition
    \/ PushTable
    \/ ThrowFailure
    \/ WarnFailure
    \/ RejectNoTables
    \/ ReturnSchema

Spec == Init /\ [][Next]_vars

(***************************************************************************)
(* What the call was asked, read from its arguments, and what the written  *)
(* statements say should come out of it.                                   *)
(***************************************************************************)
Done == pc = "done"

\* the call returned a schema
Returned == result # None /\ ~result[1].error

\* the call threw an error with this message
Rejected(message) == result = Some(Throw(message))

EmptySqlMessage == "SQL cannot be empty"

UnknownDialectMessage == "Unable to determine SQL dialect. Please specify dialect explicitly."

strictAsked == options.strict = Some(TRUE)

indexesAsked == options.includeIndexes # Some(FALSE)

inferenceAsked == options.inferDialect # Some(FALSE)

\* the call got past the resolution of the dialect
DialectResolved == actualDialect # None

\* a statement with its closing parenthesis: its body gets parsed
Terminated(st) == st.create /\ st.closed

\* a clause of the statement raises a parse error under the options asked
Fails(st) == Terminated(st) /\ st.failure # None /\ (st.needsIndexes => indexesAsked)

ParsesWell(st) == Terminated(st) /\ ~Fails(st)

NamesOf(seq) == [ k \in 1..Len(seq) |-> seq[k].name ]

\* the warning written for a failing statement
WarningOf(st) ==
    "Warning: Failed to parse table '" \o st.name \o "': " \o st.failure[1] \o "\n"

WarningsOf(seq) == [ k \in 1..Len(seq) |-> WarningOf(seq[k]) ]

\* the written statement the parser is on (statements of one text that bear
\* the same name are written alike)
CurrentStatement == stmts[CHOOSE k \in 1..Len(stmts) : stmts[k].name = current[1].tableName]

\* the written statements a table of that name can come from
WrittenAs(name) == { stmts[k] : k \in { j \in 1..Len(stmts) : stmts[j].name = name } }

(***************************************************************************)
(* C1.  With strict = false, parseDdl never fails because the clauses of a *)
(* table cannot be parsed: once the dialect is resolved it returns a       *)
(* schema whose tables are exactly the statements that parse, in the order *)
(* they are written, and each failing statement is dropped with one        *)
(* warning; without a resolved dialect the only error is the dialect's.    *)
(***************************************************************************)
C1_NonStrictKeepsParsedTables ==
    (Done /\ ~strictAsked /\ stmts # << >>) =>
        IF DialectResolved
        THEN /\ Returned
             /\ NamesOf(result[1].value.tables) = NamesOf(SelectSeq(stmts, ParsesWell))
             /\ log = WarningsOf(SelectSeq(stmts, Fails))
        ELSE Rejected(UnknownDialectMessage)

\* a failing statement before a good one: one table, one warning
C1_Witness ==
    /\ Done /\ ~strictAsked /\ Returned
    /\ Len(stmts) = 2 /\ Fails(stmts[1]) /\ ParsesWell(stmts[2])
    /\ NamesOf(result[1].value.tables) = << stmts[2].name >>
    /\ Len(log) = 1

(***************************************************************************)
(* C2.  With strict = true, when a clause of a CREATE TABLE body raises a  *)
(* parse error, parseDdl rejects with an error that names the failing      *)
(* table and carries the message of the error raised; no schema is         *)
(* returned, whatever was parsed before.                                   *)
(***************************************************************************)
FirstFailing == stmts[CHOOSE k \in 1..Len(stmts) :
                          Fails(stmts[k]) /\ \A j \in 1..(k - 1) : ~Fails(stmts[j])]

C2_StrictRejectsWithTableAndMessage ==
    (Done /\ strictAsked /\ DialectResolved /\ \E k \in 1..Len(stmts) : Fails(stmts[k])) =>
        Rejected("Failed to parse table '" \o FirstFailing.name \o "': "
                     \o FirstFailing.failure[1])

\* a good statement before a failing one: the table parsed first is not returned
C2_Witness ==
    /\ Done /\ strictAsked /\ result # None /\ result[1].error
    /\ Len(stmts) = 2 /\ ParsesWell(stmts[1]) /\ Fails(stmts[2])
    /\ Len(tables) = 1 /\ Len(parsed) = 2

(***************************************************************************)
(* C3.  For a text with a CREATE TABLE header that yields no table,        *)
(* strict = true always rejects, and strict = false returns a schema with  *)
(* zero tables without raising.                                            *)
(***************************************************************************)
HasCreateStatement == \E k \in 1..Len(stmts) : stmts[k].create

YieldsNoTable == \A k \in 1..Len(stmts) : ~ParsesWell(stmts[k])

C3_AsStated ==
    (Done /\ HasCreateStatement /\ YieldsNoTable) =>
        IF strictAsked
        THEN result[1].error
        ELSE Returned /\ result[1].value.tables = << >>

\* C3 as the code has it: with strict = false the schema with zero tables is
\* returned when the dialect is given or detected; otherwise the call
\* rejects with the error of the unknown dialect.
C3_NoTables ==
    (Done /\ HasCreateStatement /\ YieldsNoTable) =>
        IF strictAsked
        THEN result[1].error
        ELSE IF DialectResolved
        THEN Returned /\ result[1].value.tables = << >>
        ELSE Rejected(UnknownDialectMessage)

\* the unterminated statement, strict: the error of the strict mode
C3_Witness ==
    /\ Done /\ strictAsked
    /\ Len(stmts) = 1 /\ stmts[1].create /\ ~stmts[1].closed
    /\ Rejected("Invalid SQL: Unable to parse any valid table definitions in strict mode")

(***************************************************************************)
(* C4.  With strict = true, a returned schema holds one table for each     *)
(* CREATE TABLE statement of the text.                                     *)
(***************************************************************************)
C4_StrictSkipsNoStatement ==
    (Done /\ strictAsked /\ Returned) =>
        Len(result[1].value.tables) = Len(SelectSeq(stmts, LAMBDA st : st.create))

\* a good statement and an unterminated one, strict: one table is returned
C4_Witness ==
    /\ Done /\ strictAsked /\ Returned
    /\ sql = "CREATE TABLE users (id INT AUTO_INCREMENT PRIMARY KEY, name VARCHAR(50) NOT NULL);\nCREATE TABLE invalid ("
    /\ Len(SelectSeq(stmts, LAMBDA st : st.create)) = 2
    /\ NamesOf(result[1].value.tables) = << "users" >>

(***************************************************************************)
(* C5.  For an empty or whitespace-only sql, whatever the dialect and the  *)
(* options, parseDdl rejects with the error of the empty SQL, before the   *)
(* detection of the dialect and before any table is parsed.                *)
(***************************************************************************)
C5_EmptySqlRejectedFirst ==
    (sql \in BlankTexts) =>
        /\ pc = "start" \/ (Done /\ Rejected(EmptySqlMessage))
        /\ detection = None
        /\ parsed = << >>

C5_Witness ==
    /\ sql = " \n\t " /\ dialect = Some("mysql") /\ strictAsked
    /\ Done /\ Rejected(EmptySqlMessage)

(***************************************************************************)
(* C6.  Without a dialect argument and with inferDialect, parseDdl calls   *)
(* detectDialect on the sql, the schema it returns bears the dialect       *)
(* detected, and it rejects with 'Unable to determine SQL dialect' exactly *)
(* when the detection says unknown, before any table is parsed, with       *)
(* strict or without.                                                      *)
(***************************************************************************)
C6_DetectedDialectUsed ==
    (Done /\ dialect = None /\ inferenceAsked /\ sql \notin BlankTexts) =>
        /\ detection = Some(detectDialect(sql))
        /\ (detection[1].dialect = "unknown") <=> Rejected(UnknownDialectMessage)
        /\ Rejected(UnknownDialectMessage) => parsed = << >>
        /\ Returned => result[1].value.dialect = detection[1].dialect

C6_Witness ==
    /\ Done /\ dialect = None /\ inferenceAsked /\ strictAsked
    /\ Returned /\ result[1].value.dialect = "postgres"
    /\ Len(result[1].value.tables) = 1

(***************************************************************************)
(* C7.  In every table of a returned schema, each column named by the      *)
(* primary key, by a unique key, by an index or by the columns of a        *)
(* foreign key is a column of the table.                                   *)
(***************************************************************************)
Range(seq) == { seq[k] : k \in 1..Len(seq) }

ColumnsNamed(table) ==
    UNION ({ Range(key) : key \in Range(table.primaryKey) }
           \cup { Range(key) : key \in Range(table.uniqueKeys) }
           \cup { Range(index.columns) : index \in Range(table.indexes) }
           \cup { Range(fk.columns) : fk \in Range(table.foreignKeys) })

C7_KeysNameColumns ==
    (Done /\ Returned) =>
        \A table \in Range(result[1].value.tables) :
            ColumnsNamed(table) \subseteq Range(NamesOf(table.columns))

\* a PRIMARY KEY clause over a column the table does not have
C7_Witness ==
    /\ Done /\ Returned
    /\ sql = "CREATE TABLE links (id INT NOT NULL, PRIMARY KEY (missing));"
    /\ Len(result[1].value.tables) = 1
    /\ result[1].value.tables[1].primaryKey = Some(<< "missing" >>)
    /\ NamesOf(result[1].value.tables[1].columns) = << "id" >>

(***************************************************************************)
(* C8.  When exactly one column of a table is written with an inline       *)
(* PRIMARY KEY marker and the table has no PRIMARY KEY clause, the primary *)
(* key of the parsed table is that column.                                 *)
(***************************************************************************)
C8_InlinePrimaryKey ==
    (Done /\ Returned) =>
        \A table \in Range(result[1].value.tables) :
            \A st \in WrittenAs(table.name) :
                st.pk # None => table.primaryKey = Some(<< st.pk[1] >>)

\* the column with the marker neither auto-increments nor bears NOT NULL
\* and an id in its name: no primary key comes out
C8_Witness ==
    /\ Done /\ Returned
    /\ sql = "CREATE TABLE codes (code VARCHAR(10) PRIMARY KEY, label VARCHAR(50));"
    /\ Len(result[1].value.tables) = 1
    /\ NamesOf(result[1].value.tables[1].columns) = << "code", "label" >>
    /\ result[1].value.tables[1].primaryKey = None

(***************************************************************************)
(* C9.  A clause FOREIGN KEY (<cols>) REFERENCES <table>(<refcols>) gives  *)
(* exactly one foreign key: the columns and the referenced columns in the  *)
(* order written and without quotes, the referenced table, the name        *)
(* fk_<cols joined by _>_<table>, onUpdate and onDelete set exactly when   *)
(* the clause writes them, in either order, in upper case.  A FOREIGN KEY  *)
(* clause that does not match raises the error of the clause.              *)
(***************************************************************************)
ForeignKeyWritten(fk) ==
    [ name |-> "fk_" \o join(fk.columns, "_") \o "_" \o fk.referencedTable,
      columns |-> fk.columns,
      referencedTable |-> fk.referencedTable,
      referencedColumns |-> fk.referencedColumns,
      onUpdate |-> fk.onUpdate,
      onDelete |-> fk.onDelete ]

MalformedForeignKey(st) ==
    st.failure # None /\ startsWith(st.failure[1], "Invalid foreign key syntax: FOREIGN KEY")

C9_ForeignKeyClause ==
    (pc = "parsed") =>
        /\ CurrentStatement.fk # None =>
               /\ ~outcome[1].error
               /\ outcome[1].value.foreignKeys = << ForeignKeyWritten(CurrentStatement.fk[1]) >>
        /\ MalformedForeignKey(CurrentStatement) =>
               outcome[1] = Throw(CurrentStatement.failure[1])

\* two quoted columns, both actions, ON UPDATE written first
C9_Witness ==
    /\ pc = "parsed" /\ CurrentStatement.fk # None
    /\ CurrentStatement.fk[1].columns = << "b_id", "a_id" >>
    /\ includes(current[1].tableBody, Backtick \o "b_id" \o Backtick)
    /\ includes(current[1].tableBody, " ON UPDATE NO ACTION ON DELETE CASCADE")
    /\ Len(outcome[1].value.foreignKeys) = 1
    /\ outcome[1].value.foreignKeys[1].onDelete = Some("CASCADE")
    /\ outcome[1].value.foreignKeys[1].onUpdate = Some("NO ACTION")

(***************************************************************************)
(* C10.  A column written with an inline REFERENCES <table>(<col>) adds    *)
(* the column and exactly one foreign key of that one column, named        *)
(* fk_<table>_<column> (read with either table: the one being parsed or    *)
(* the one referenced), with the referenced table and column, and with     *)
(* onDelete and onUpdate the actions the column definition writes.         *)
(***************************************************************************)
C10_InlineReferences ==
    (pc = "parsed" /\ CurrentStatement.ref # None) =>
        /\ ~outcome[1].error
        /\ CurrentStatement.ref[1].column \in Range(NamesOf(outcome[1].value.columns))
        /\ Len(outcome[1].value.foreignKeys) = 1
        /\ LET holds(fk, ref) ==
                   /\ fk.name \in { "fk_" \o current[1].tableName \o "_" \o ref.column,
                                    "fk_" \o ref.referencedTable \o "_" \o ref.column }
                   /\ fk.columns = << ref.column >>
                   /\ fk.referencedTable = ref.referencedTable
                   /\ fk.referencedColumns = << ref.referencedColumn >>
                   /\ fk.onDelete = ref.onDelete
                   /\ fk.onUpdate = ref.onUpdate
           IN  holds(outcome[1].value.foreignKeys[1], CurrentStatement.ref[1])

\* ON UPDATE written before ON DELETE: the ON DELETE action is not taken
C10_Witness ==
    /\ pc = "parsed" /\ CurrentStatement.ref # None
    /\ current[1].tableBody
           = "id INT NOT NULL, user_id INT REFERENCES users(id) ON UPDATE NO ACTION ON DELETE CASCADE"
    /\ Len(outcome[1].value.foreignKeys) = 1
    /\ outcome[1].value.foreignKeys[1].name = "fk_posts_user_id"
    /\ outcome[1].value.foreignKeys[1].onUpdate = Some("NO ACTION")
    /\ outcome[1].value.foreignKeys[1].onDelete = None


(***************************************************************************)
(* Calls of parseDdl on one statement written from its parts: the header,  *)
(* the table name and its quoting, and the clauses of the body.  A record  *)
(* keeps the parts next to what they say, so that the parsed table can be  *)
(* compared with what was written.                                         *)
(***************************************************************************)
Written(header, open, table, close, body, column, key) ==
    [ header |-> header, open |-> open, table |-> table, close |-> close,
      body |-> body, column |-> column, fk |-> key ]

WrittenText(st) ==
    st.header \o st.open \o st.table \o st.close \o " (" \o st.body \o ");"

\* a column clause <name> <type><params><rest>
ColumnClause(name, type, params, rest) ==
    [ name |-> name, type |-> type, params |-> params, rest |-> rest ]

ColumnClauseText(c) == c.name \o " " \o c.type \o c.params.text \o c.rest.text

ColumnStatement(c) ==
    Written("CREATE TABLE ", "", "t", "", ColumnClauseText(c), Some(c), None)

\* the parameter lists of a type, and the length and scale they give
NoParameters == [ text |-> "", length |-> None, scale |-> None ]

TypeParameters ==
    { NoParameters,
      [ text |-> "(10)", length |-> Some(10), scale |-> None ],
      [ text |-> "(10,2)", length |-> Some(10), scale |-> Some(2) ],
      [ text |-> " (8, 3)", length |-> Some(8), scale |-> Some(3) ],
      [ text |-> "(MAX)", length |-> None, scale |-> None ] }

TypeKeywords == { "INT", "VARCHAR", "varchar", "NUMBER", "VARCHAR2", "DATETIME2", "DECIMAL" }

SerialTypes == { "SERIAL", "BIGSERIAL", "SMALLSERIAL", "serial" }

\* what follows the type of a column, and whether it asks for auto-increment
NoMarker == [ text |-> "", auto |-> FALSE ]

AutoMarkers ==
    { NoMarker,
      [ text |-> " NOT NULL", auto |-> FALSE ],
      [ text |-> " AUTO_INCREMENT", auto |-> TRUE ],
      [ text |-> " AUTOINCREMENT", auto |-> TRUE ],
      [ text |-> " IDENTITY(1,1)", auto |-> TRUE ],
      [ text |-> " GENERATED ALWAYS AS IDENTITY", auto |-> TRUE ] }

TypedColumns ==
    { ColumnClause("c", t, p, NoMarker) : t \in TypeKeywords, p \in TypeParameters }

MarkedColumns ==
    { ColumnClause(n, t, NoParameters, r) :
          n \in { "id", "serial_no" }, t \in SerialTypes \cup { "INT", "BIGINT" },
          r \in AutoMarkers }

\* the headers CREATE [TEMPORARY] TABLE [IF NOT EXISTS] <name>
HeaderQuoting == { << "", "" >>, << Backtick, Backtick >>, << "\"", "\"" >>, << "[", "]" >> }

HeaderStatements ==
    { Written("CREATE " \o temporary \o "TABLE " \o ifNotExists, q[1], "users", q[2],
              "id INT", None, None) :
          temporary \in { "", "TEMPORARY " }, ifNotExists \in { "", "IF NOT EXISTS " },
          q \in HeaderQuoting }

\* a foreign key written as a clause of the table, with its actions
ClauseKeyStatement(actions) ==
    Written("CREATE TABLE ", "", "posts", "",
            "id INT, user_id INT, FOREIGN KEY (user_id) REFERENCES users(id)" \o actions.text,
            None, Some(actions))

WrittenStatements ==
    { ColumnStatement(c) : c \in TypedColumns \cup MarkedColumns }
        \cup HeaderStatements
        \cup { ClauseKeyStatement(actions) : actions \in ActionsWritten }
        \cup { Written("CREATE TABLE ", "", "items", "", "id INT NOT NULL, name", None, None) }

\* the options of these calls: includeActions left out, false or true
WrittenOptions ==
    [ inferDialect   : { None },
      includeIndexes : { None },
      includeActions : { None, Some(FALSE), Some(TRUE) },
      strict         : { None, Some(TRUE) } ]

WrittenInit ==
    /\ stmts \in { << st >> : st \in WrittenStatements } \cup { << >> }
    /\ sql = IF stmts = << >> THEN "" ELSE WrittenText(stmts[1])
    /\ dialect \in DialectInputs
    /\ options \in WrittenOptions
    /\ pc = "start"
    /\ mergedOptions = None
    /\ detection = None
    /\ actualDialect = None
    /\ cleaned = ""
    /\ lastIndex = 1
    /\ current = None
    /\ outcome = None
    /\ tables = << >>
    /\ parsed = << >>
    /\ log = << >>
    /\ result = None
    /\ NoCaller
    /\ Quiet

WrittenSpec == WrittenInit /\ [][Next]_vars

\* the call is on a statement of one column clause, and its table was parsed
ColumnParsed ==
    /\ stmts # << >> /\ stmts[1].column # None
    /\ pc = "parsed" /\ ~outcome[1].error

WrittenColumn == stmts[1].column[1]

ParsedColumn == outcome[1].value.columns[1]

IsSerial(type) == toUpperCase(type) \in { "SERIAL", "BIGSERIAL", "SMALLSERIAL" }

(***************************************************************************)
(* C11.  A column written <name> <TYPE> or <name> <TYPE>(<n>[,<m>]) whose  *)
(* type is not of the SERIAL family is parsed with the upper-cased type    *)
(* keyword as its type, with length n and scale m where they are integers, *)
(* and with neither where the parameter list is absent or not numeric.     *)
(***************************************************************************)
C11_TypeAsWritten ==
    (stmts # << >> /\ stmts[1].column # None /\ pc = "parsed"
         /\ ~IsSerial(WrittenColumn.type)) =>
        /\ ~outcome[1].error
        /\ Len(outcome[1].value.columns) = 1
        /\ ParsedColumn.type = [ type   |-> toUpperCase(WrittenColumn.type),
                                 length |-> WrittenColumn.params.length,
                                 scale  |-> WrittenColumn.params.scale ]

\* c VARCHAR2(10) is parsed as a VARCHAR without a length
C11_Witness ==
    /\ ColumnParsed
    /\ sql = "CREATE TABLE t (c VARCHAR2(10));"
    /\ ParsedColumn.name = "c"
    /\ ParsedColumn.type = [ type |-> "VARCHAR", length |-> None, scale |-> None ]

(***************************************************************************)
(* C12.  A column whose type token is SERIAL, BIGSERIAL or SMALLSERIAL is  *)
(* parsed as INTEGER, BIGINT or SMALLINT with autoIncrement true; a column *)
(* with any other type token keeps its own type keyword and is             *)
(* autoIncrement only if its clause has AUTO_INCREMENT, AUTOINCREMENT or   *)
(* an IDENTITY form.                                                       *)
(***************************************************************************)
SerialStandsFor(type) ==
    IF toUpperCase(type) = "BIGSERIAL" THEN "BIGINT"
    ELSE IF toUpperCase(type) = "SMALLSERIAL" THEN "SMALLINT"
    ELSE "INTEGER"

C12_SerialFamily ==
    ColumnParsed =>
        IF IsSerial(WrittenColumn.type)
        THEN /\ ParsedColumn.type.type = SerialStandsFor(WrittenColumn.type)
             /\ ParsedColumn.autoIncrement
        ELSE /\ ParsedColumn.type.type = toUpperCase(WrittenColumn.type)
             /\ ParsedColumn.autoIncrement = WrittenColumn.rest.auto

\* serial_no INT is parsed as an auto-incremented INTEGER
C12_Witness ==
    /\ ColumnParsed
    /\ sql = "CREATE TABLE t (serial_no INT);"
    /\ ParsedColumn.name = "serial_no"
    /\ ParsedColumn.type.type = "INTEGER"
    /\ ParsedColumn.autoIncrement

(***************************************************************************)
(* C13.  Every header CREATE [TEMPORARY] TABLE [IF NOT EXISTS] <name> is   *)
(* found, whether the name is bare or quoted with backticks, double quotes *)
(* or square brackets, and the table is named by the identifier without    *)
(* its quoting.                                                            *)
(***************************************************************************)
HeaderCall == stmts # << >> /\ stmts[1].column = None /\ stmts[1].fk = None
                  /\ stmts[1].table = "users"

C13_HeaderFound ==
    (HeaderCall /\ Done /\ actualDialect # None) =>
        /\ Returned
        /\ NamesOf(result[1].value.tables) = << stmts[1].table >>

\* the header with the name in square brackets yields no table
C13_Witness ==
    /\ HeaderCall /\ Done /\ Returned
    /\ sql = "CREATE TABLE [users] (id INT);"
    /\ result[1].value.tables = << >>

(***************************************************************************)
(* C14.  Option includeActions decides whether the ON UPDATE / ON DELETE   *)
(* actions are part of the result: with includeActions false no foreign    *)
(* key has an onUpdate or onDelete, with true (the default) the actions    *)
(* written in the statement are present.                                   *)
(***************************************************************************)
KeyCall == stmts # << >> /\ stmts[1].fk # None

ReturnedKeys == result[1].value.tables[1].foreignKeys

C14_ActionsAsAsked ==
    (KeyCall /\ Done /\ Returned) =>
        /\ Len(result[1].value.tables) = 1
        /\ Len(ReturnedKeys) = 1
        /\ IF options.includeActions = Some(FALSE)
           THEN ReturnedKeys[1].onDelete = None /\ ReturnedKeys[1].onUpdate = None
           ELSE /\ ReturnedKeys[1].onDelete = stmts[1].fk[1].onDelete
                /\ ReturnedKeys[1].onUpdate = stmts[1].fk[1].onUpdate

\* includeActions is false and the foreign key carries its ON DELETE action
C14_Witness ==
    /\ KeyCall /\ Done /\ Returned
    /\ options.includeActions = Some(FALSE)
    /\ mergedOptions[1].includeActions = FALSE
    /\ Len(result[1].value.tables) = 1
    /\ Len(ReturnedKeys) = 1
    /\ ReturnedKeys[1].onDelete = Some("CASCADE")

(***************************************************************************)
(* Calls of DialectDetectionService.detectDialect on its own: the texts of *)
(* its tests, the samples of getSampleSQL, statements written with the     *)
(* dialect-neutral constructs only, and statements that mix the features   *)
(* of several dialects.                                                    *)
(***************************************************************************)
Lines(ls) == join(ls, "\n")

\* the SQL texts of the tests of DialectDetectionService, with the dialect each
\* test expects
TestSamples ==
    <<
      [ dialect |-> "mysql",
        text |-> Lines(<< "",
                 "        CREATE TABLE users (",
                 "          id INT AUTO_INCREMENT PRIMARY KEY,",
                 "          name VARCHAR(255) NOT NULL,",
                 "          email VARCHAR(255) UNIQUE,",
                 "          created_at TIMESTAMP DEFAULT CURRENT_TIMESTAMP",
                 "        ) ENGINE=InnoDB CHARSET=utf8mb4;",
                 "      " >>) ],
      [ dialect |-> "mysql",
        text |-> Lines(<< "",
                 "        CREATE TABLE products (",
                 "          id INT AUTO_INCREMENT PRIMARY KEY,",
                 "          status ENUM('active', 'inactive', 'pending'),",
                 "          tags SET('electronics', 'clothing', 'books')",
                 "        );",
                 "      " >>) ],
      [ dialect |-> "postgres",
        text |-> Lines(<< "",
                 "        CREATE TABLE users (",
                 "          id SERIAL PRIMARY KEY,",
                 "          data JSONB NOT NULL,",
                 "          created_at TIMESTAMP WITH TIME ZONE DEFAULT CURRENT_TIMESTAMP",
                 "        );",
                 "      " >>) ],
      [ dialect |-> "postgres",
        text |-> Lines(<< "",
                 "        CREATE TABLE posts (",
                 "          id BIGSERIAL PRIMARY KEY,",
                 "          tags TEXT[],",
                 "          user_id UUID REFERENCES users(id),",
                 "          CONSTRAINT check_title_length CHECK (length(title) > 0)",
                 "        );",
                 "      " >>) ],
      [ dialect |-> "mssql",
        text |-> Lines(<< "",
                 "        CREATE TABLE users (",
                 "          id INT IDENTITY(1,1) PRIMARY KEY,",
                 "          name NVARCHAR(255) NOT NULL,",
                 "          data XML,",
                 "          created_at DATETIME2 DEFAULT GETDATE()",
                 "        );",
                 "      " >>) ],
      [ dialect |-> "sqlite",
        text |-> Lines(<< "",
                 "        CREATE TABLE users (",
                 "          id INTEGER PRIMARY KEY AUTOINCREMENT,",
                 "          name TEXT NOT NULL,",
                 "          email TEXT UNIQUE",
                 "        );",
                 "      " >>) ] >>

\* getSampleSQL: the sample of each dialect
SampleSQL ==
    <<
      [ dialect |-> "mysql",
        text |-> Lines(<< "-- MySQL Sample Database",
                 "CREATE TABLE users (",
                 "    id INT AUTO_INCREMENT PRIMARY KEY,",
                 "    username VARCHAR(50) NOT NULL UNIQUE,",
                 "    email VARCHAR(100) NOT NULL UNIQUE,",
                 "    created_at TIMESTAMP DEFAULT CURRENT_TIMESTAMP",
                 ");",
                 "",
                 "CREATE TABLE posts (",
                 "    id INT AUTO_INCREMENT PRIMARY KEY,",
                 "    title VARCHAR(200) NOT NULL,",
                 "    content TEXT,",
                 "    user_id INT,",
                 "    published_at TIMESTAMP NULL,",
                 "    created_at TIMESTAMP DEFAULT CURRENT_TIMESTAMP,",
                 "    FOREIGN KEY (user_id) REFERENCES users(id) ON DELETE CASCADE",
                 ");",
                 "",
                 "CREATE TABLE comments (",
                 "    id INT AUTO_INCREMENT PRIMARY KEY,",
                 "    content TEXT NOT NULL,",
                 "    post_id INT,",
                 "    user_id INT,",
                 "    created_at TIMESTAMP DEFAULT CURRENT_TIMESTAMP,",
                 "    FOREIGN KEY (post_id) REFERENCES posts(id) ON DELETE CASCADE,",
                 "    FOREIGN KEY (user_id) REFERENCES users(id) ON DELETE CASCADE",
                 ");" >>) ],
      [ dialect |-> "postgres",
        text |-> Lines(<< "-- PostgreSQL Sample Database",
                 "CREATE TABLE users (",
                 "    id SERIAL PRIMARY KEY,",
                 "    username VARCHAR(50) NOT NULL UNIQUE,",
                 "    email VARCHAR(100) NOT NULL UNIQUE,",
                 "    created_at TIMESTAMP DEFAULT CURRENT_TIMESTAMP",
                 ");",
                 "",
                 "CREATE TABLE posts (",
                 "    id SERIAL PRIMARY KEY,",
                 "    title VARCHAR(200) NOT NULL,",
                 "    content TEXT,",
                 "    user_id INTEGER REFERENCES users(id) ON DELETE CASCADE,",
                 "    published_at TIMESTAMP,",
                 "    created_at TIMESTAMP DEFAULT CURRENT_TIMESTAMP",
                 ");",
                 "",
                 "CREATE TABLE comments (",
                 "    id SERIAL PRIMARY KEY,",
                 "    content TEXT NOT NULL,",
                 "    post_id INTEGER REFERENCES posts(id) ON DELETE CASCADE,",
                 "    user_id INTEGER REFERENCES users(id) ON DELETE CASCADE,",
                 "    created_at TIMESTAMP DEFAULT CURRENT_TIMESTAMP",
                 ");" >>) ],
      [ dialect |-> "sqlite",
        text |-> Lines(<< "-- SQLite Sample Database",
                 "CREATE TABLE users (",
                 "    id INTEGER PRIMARY KEY AUTOINCREMENT,",
                 "    username TEXT NOT NULL UNIQUE,",
                 "    email TEXT NOT NULL UNIQUE,",
                 "    created_at DATETIME DEFAULT CURRENT_TIMESTAMP",
                 ");",
                 "",
                 "CREATE TABLE posts (",
                 "    id INTEGER PRIMARY KEY AUTOINCREMENT,",
                 "    title TEXT NOT NULL,",
                 "    content TEXT,",
                 "    user_id INTEGER,",
                 "    published_at DATETIME,",
                 "    created_at DATETIME DEFAULT CURRENT_TIMESTAMP,",
                 "    FOREIGN KEY (user_id) REFERENCES users(id) ON DELETE CASCADE",
                 ");",
                 "",
                 "CREATE TABLE comments (",
                 "    id INTEGER PRIMARY KEY AUTOINCREMENT,",
                 "    content TEXT NOT NULL,",
                 "    post_id INTEGER,",
                 "    user_id INTEGER,",
                 "    created_at DATETIME DEFAULT CURRENT_TIMESTAMP,",
                 "    FOREIGN KEY (post_id) REFERENCES posts(id) ON DELETE CASCADE,",
                 "    FOREIGN KEY (user_id) REFERENCES users(id) ON DELETE CASCADE",
                 ");" >>) ],
      [ dialect |-> "mssql",
        text |-> Lines(<< "-- SQL Server Sample Database",
                 "CREATE TABLE users (",
                 "    id INT IDENTITY(1,1) PRIMARY KEY,",
                 "    username NVARCHAR(50) NOT NULL UNIQUE,",
                 "    email NVARCHAR(100) NOT NULL UNIQUE,",
                 "    created_at DATETIME2 DEFAULT GETDATE()",
                 ");",
                 "",
                 "CREATE TABLE posts (",
                 "    id INT IDENTITY(1,1) PRIMARY KEY,",
                 "    title NVARCHAR(200) NOT NULL,",
                 "    content NTEXT,",
                 "    user_id INT,",
                 "    published_at DATETIME2,",
                 "    created_at DATETIME2 DEFAULT GETDATE(),",
                 "    CONSTRAINT FK_posts_user_id FOREIGN KEY (user_id) REFERENCES users(id) ON DELETE CASCADE",
                 ");",
                 "",
                 "CREATE TABLE comments (",
                 "    id INT IDENTITY(1,1) PRIMARY KEY,",
                 "    content NTEXT NOT NULL,",
                 "    post_id INT,",
                 "    user_id INT,",
                 "    created_at DATETIME2 DEFAULT GETDATE(),",
                 "    CONSTRAINT FK_comments_post_id FOREIGN KEY (post_id) REFERENCES posts(id) ON DELETE CASCADE,",
                 "    CONSTRAINT FK_comments_user_id FOREIGN KEY (user_id) REFERENCES users(id) ON DELETE CASCADE",
                 ");" >>) ],
      [ dialect |-> "oracle",
        text |-> Lines(<< "-- Oracle Sample Database",
                 "CREATE TABLE users (",
                 "    id NUMBER GENERATED BY DEFAULT AS IDENTITY PRIMARY KEY,",
                 "    username VARCHAR2(50) NOT NULL UNIQUE,",
                 "    email VARCHAR2(100) NOT NULL UNIQUE,",
                 "    created_at TIMESTAMP DEFAULT CURRENT_TIMESTAMP",
                 ");",
                 "",
                 "CREATE TABLE posts (",
                 "    id NUMBER GENERATED BY DEFAULT AS IDENTITY PRIMARY KEY,",
                 "    title VARCHAR2(200) NOT NULL,",
                 "    content CLOB,",
                 "    user_id NUMBER,",
                 "    published_at TIMESTAMP,",
                 "    created_at TIMESTAMP DEFAULT CURRENT_TIMESTAMP,",
                 "    CONSTRAINT FK_posts_user_id FOREIGN KEY (user_id) REFERENCES users(id) ON DELETE CASCADE",
                 ");",
                 "",
                 "CREATE TABLE comments (",
                 "    id NUMBER GENERATED BY DEFAULT AS IDENTITY PRIMARY KEY,",
                 "    content CLOB NOT NULL,",
                 "    post_id NUMBER,",
                 "    user_id NUMBER,",
                 "    created_at TIMESTAMP DEFAULT CURRENT_TIMESTAMP,",
                 "    CONSTRAINT FK_comments_post_id FOREIGN KEY (post_id) REFERENCES posts(id) ON DELETE CASCADE,",
                 "    CONSTRAINT FK_comments_user_id FOREIGN KEY (user_id) REFERENCES users(id) ON DELETE CASCADE",
                 ");" >>) ] >>

DetectText(family, expected, text) ==
    [ family |-> family, dialect |-> expected, text |-> text ]

\* one table written with CREATE TABLE, PRIMARY KEY, NOT NULL and UNIQUE only:
\* the primary key inline or as a clause of the table
NeutralKeys ==
    { [ inline |-> " PRIMARY KEY", clause |-> "" ],
      [ inline |-> " NOT NULL PRIMARY KEY", clause |-> "" ],
      [ inline |-> " PRIMARY KEY NOT NULL", clause |-> "" ],
      [ inline |-> " NOT NULL", clause |-> "PRIMARY KEY (id)" ] }

NeutralColumns ==
    { << "name VARCHAR(255) NOT NULL" >>,
      << "name VARCHAR(255) NOT NULL", "email VARCHAR(255) UNIQUE" >> }

NeutralLayouts == { [ open |-> "", sep |-> ", " ], [ open |-> "\n  ", sep |-> ",\n  " ] }

NeutralText(type, key, columns, layout) ==
    "CREATE TABLE users (" \o layout.open
        \o join(<< "id " \o type \o key.inline >> \o columns
                    \o (IF key.clause = "" THEN << >> ELSE << key.clause >>),
                layout.sep)
        \o ");"

NeutralTexts ==
    { DetectText("neutral", "unknown", NeutralText(type, key, columns, layout)) :
          type \in { "INT", "INTEGER" }, key \in NeutralKeys, columns \in NeutralColumns,
          layout \in NeutralLayouts }

\* one table written with features of several dialects, each present or not
MixedText(temp, ifNotExists, blob, xml, stamp, key) ==
    "CREATE " \o (IF temp THEN "TEMP " ELSE "") \o "TABLE "
        \o (IF ifNotExists THEN "IF NOT EXISTS " ELSE "") \o "docs (id INT NOT NULL"
        \o (IF blob THEN ", body BLOB" ELSE "")
        \o (IF xml THEN ", meta XML" ELSE "")
        \o (IF stamp THEN ", created_at TIMESTAMP DEFAULT CURRENT_TIMESTAMP" ELSE "")
        \o (IF key THEN ", PRIMARY KEY (id)" ELSE "")
        \o ");"

MixedTexts ==
    { DetectText("mixed", "", MixedText(temp, ifNotExists, blob, xml, stamp, key)) :
          temp \in BOOLEAN, ifNotExists \in BOOLEAN, blob \in BOOLEAN, xml \in BOOLEAN,
          stamp \in BOOLEAN, key \in BOOLEAN }

CanonicalTexts ==
    { DetectText("test", TestSamples[k].dialect, TestSamples[k].text) :
          k \in 1..Len(TestSamples) }
    \cup { DetectText("sample", SampleSQL[k].dialect, SampleSQL[k].text) :
               k \in 1..Len(SampleSQL) }

\* one table whose names are written bare or quoted: [t], "t" or `t`
NameQuotes == { << "", "" >>, << "[", "]" >>, << "\"", "\"" >>, << Backtick, Backtick >> }

QuotedNameText(table, column) ==
    "CREATE TABLE " \o table[1] \o "users" \o table[2]
        \o " (" \o column[1] \o "id" \o column[2] \o " INT);"

QuotedNameTexts ==
    { DetectText("quoted", "", QuotedNameText(table, column)) :
          table \in NameQuotes, column \in NameQuotes }

DetectTexts == CanonicalTexts \cup NeutralTexts \cup MixedTexts \cup QuotedNameTexts

DetectInit ==
    /\ stmts \in { << t >> : t \in DetectTexts }
    /\ sql = stmts[1].text
    /\ dialect = None
    /\ options = [ inferDialect |-> None, includeIndexes |-> None,
                   includeActions |-> None, strict |-> None ]
    /\ pc = "start"
    /\ mergedOptions = None
    /\ detection = None
    /\ actualDialect = None
    /\ cleaned = ""
    /\ lastIndex = 1
    /\ current = None
    /\ outcome = None
    /\ tables = << >>
    /\ parsed = << >>
    /\ log = << >>
    /\ result = None
    /\ NoCaller
    /\ Quiet

\* const result = DialectDetectionService.detectDialect(sql)
Detect ==
    /\ pc = "start"
    /\ detection' = Some(detectDialect(sql))
    /\ pc' = "done"
    /\ UNCHANGED << inputs, apart, caller, mergedOptions, actualDialect, scanState, result >>

DetectNext == Detect

DetectSpec == DetectInit /\ [][DetectNext]_vars

Detected == pc = "done" /\ detection # None

(***************************************************************************)
(* C17.  In every result of detectDialect, a reported confidence (the      *)
(* value rounded to two decimals) of 0.3 or less comes with the dialect    *)
(* unknown.                                                                *)
(***************************************************************************)
C17_LowConfidenceIsUnknown ==
    Detected => (detection[1].confidence <= 30 => detection[1].dialect = "unknown")

\* a text on which mysql is reported with the confidence 0.3
C17_Witness ==
    /\ Detected
    /\ sql = "CREATE TEMP TABLE IF NOT EXISTS docs (id INT NOT NULL, body BLOB, meta XML, created_at TIMESTAMP DEFAULT CURRENT_TIMESTAMP, PRIMARY KEY (id));"
    /\ detection[1].dialect = "mysql"
    /\ detection[1].confidence = 30

(***************************************************************************)
(* C18.  For every text written only with the dialect-neutral constructs   *)
(* CREATE TABLE, PRIMARY KEY (inline or as a PRIMARY KEY (...) clause of   *)
(* the table), NOT NULL and UNIQUE, with plain column names and standard   *)
(* types, detectDialect returns the dialect unknown with a confidence      *)
(* below 0.4.                                                              *)
(***************************************************************************)
C18_NeutralIsUnknown ==
    (Detected /\ stmts[1].family = "neutral") =>
        /\ detection[1].dialect = "unknown"
        /\ detection[1].confidence < 40

\* the PRIMARY KEY clause of a table makes the text a mysql text
C18_Witness ==
    /\ Detected /\ stmts[1].family = "neutral"
    /\ sql = "CREATE TABLE users (id INT NOT NULL, name VARCHAR(255) NOT NULL, PRIMARY KEY (id));"
    /\ detection[1].dialect = "mysql"
    /\ detection[1].confidence = 100
    /\ detection[1].reasons = << "Found MYSQL keyword: KEY " >>

(***************************************************************************)
(* C19.  For each of the five dialects, detectDialect on the canonical     *)
(* sample of the dialect (the texts of the tests and of getSampleSQL)      *)
(* returns that dialect with a confidence above 0.5.                       *)
(***************************************************************************)
CanonicalCall == stmts[1].family \in { "test", "sample" } /\ stmts[1].dialect # "unknown"

C19_SamplesDetected ==
    (Detected /\ CanonicalCall) =>
        /\ detection[1].dialect = stmts[1].dialect
        /\ detection[1].confidence > 50

\* the sqlite sample of getSampleSQL, the closest one: confidence 0.58
C19_Witness ==
    /\ Detected /\ CanonicalCall
    /\ stmts[1].family = "sample" /\ stmts[1].dialect = "sqlite"
    /\ detection[1].dialect = "sqlite"
    /\ detection[1].confidence = 58

(***************************************************************************)
(* C27: the reasons returned with a dialect.                               *)
(***************************************************************************)
\* the descriptions of the hits of dialect d
Supports(reason, d) ==
    \/ startsWith(reason, "Found " \o toUpperCase(d) \o " keyword: ")
    \/ startsWith(reason, "Found " \o toUpperCase(d) \o " function: ")
    \/ reason = StrongReason[d]

\* C27: when detectDialect reports a dialect other than unknown, its reasons
\* (ten at most) hold a description of a hit of that dialect.
C27_ReasonsSupportDialect ==
    (Detected /\ detection[1].dialect # "unknown") =>
        /\ Len(detection[1].reasons) <= 10
        /\ \E k \in 1..Len(detection[1].reasons) :
               Supports(detection[1].reasons[k], detection[1].dialect)

\* CREATE TABLE [users] ([id] INT); is reported as mssql without any reason
C27_Witness ==
    /\ Detected
    /\ sql = "CREATE TABLE [users] ([id] INT);"
    /\ detection[1].dialect = "mssql"
    /\ detection[1].confidence = 60
    /\ detection[1].reasons = << >>

(***************************************************************************)
(* OutputFormatService                                                     *)
(***************************************************************************)
\* name.replace(/[^a-zA-Z0-9_]/g, '_')
sanitizeTableName(name) ==
    Concat([ i \in 1..Len(name) |-> IF Char(name, i) \in WordSet THEN Char(name, i) ELSE "_" ])

\* typeMap of formatColumnTypeForMermaid
MermaidTypeMap ==
    [ varchar |-> "string", text |-> "string", char |-> "string", integer |-> "int",
      bigint |-> "bigint", smallint |-> "smallint", decimal |-> "decimal",
      numeric |-> "decimal", float |-> "float", double |-> "double",
      boolean |-> "boolean", date |-> "date", datetime |-> "datetime",
      timestamp |-> "timestamp", time |-> "time" ]

formatColumnTypeForMermaid(column) ==
    LET mapped(type) == IF type \in DOMAIN MermaidTypeMap THEN MermaidTypeMap[type] ELSE type
    IN  mapped(toLowerCase(column.type.type))

\* table.foreignKeys.some(fk => fk.columns.includes(columnName))
isForeignKey(table, columnName) ==
    \E k \in 1..Len(table.foreignKeys) :
        \E j \in 1..Len(table.foreignKeys[k].columns) :
            table.foreignKeys[k].columns[j] = columnName

\* table.primaryKey?.includes(column.name)
inPrimaryKey(table, columnName) ==
    table.primaryKey # None
        /\ \E j \in 1..Len(table.primaryKey[1]) : table.primaryKey[1][j] = columnName

toMermaidER(schema) ==
    LET columnLine(table, column) ==
            "    " \o formatColumnTypeForMermaid(column) \o " " \o column.name
                \o (IF inPrimaryKey(table, column.name) THEN " PK" ELSE "")
                \o (IF isForeignKey(table, column.name) THEN " FK" ELSE "")
                \o (IF column.nullable THEN "" ELSE " NOT_NULL") \o "\n"
        entity(table) ==
            "  " \o sanitizeTableName(table.name) \o " {\n"
                \o Concat([ j \in 1..Len(table.columns) |-> columnLine(table, table.columns[j]) ])
                \o "  }\n\n"
        relationship(table, fk) ==
            "  " \o sanitizeTableName(table.name) \o " ||--o{ "
                \o sanitizeTableName(fk.referencedTable)
                \o " : \"" \o join(fk.columns, ", ") \o "\"\n"
        relationships(table) ==
            Concat([ j \in 1..Len(table.foreignKeys) |-> relationship(table, table.foreignKeys[j]) ])
    IN  trim("erDiagram\n\n"
             \o Concat([ k \in 1..Len(schema.tables) |-> entity(schema.tables[k]) ])
             \o Concat([ k \in 1..Len(schema.tables) |-> relationships(schema.tables[k]) ]))

\* column.type.length and column.type.scale are used when they are truthy
truthy(number) == number # None /\ number[1] # 0

formatColumnTypeForDBML(column) ==
    column.type.type
        \o (IF truthy(column.type.length)
            THEN "(" \o ToString(column.type.length[1])
                     \o (IF truthy(column.type.scale)
                         THEN "," \o ToString(column.type.scale[1]) ELSE "")
                     \o ")"
            ELSE "")

formatDefaultValue(value) ==
    IF value.kind = "null" THEN "null"
    ELSE IF value.kind = "string" THEN "'" \o value.str \o "'"
    ELSE IF value.kind = "boolean" THEN (IF value.bool THEN "true" ELSE "false")
    ELSE IF value.kind = "number" THEN ToString(value.num)
    ELSE IF value.negative THEN "-Infinity" ELSE "Infinity"

\* parseDdl sets no name on the schema and no comment on a table or a column:
\* the Project header is written for a schema that has a name
toDBML(schema) ==
    LET constraints(table, column) ==
            (IF inPrimaryKey(table, column.name) THEN << "pk" >> ELSE << >>)
            \o (IF ~column.nullable THEN << "not null" >> ELSE << >>)
            \o (IF column.autoIncrement THEN << "increment" >> ELSE << >>)
            \o (IF column.default # None
                THEN << "default: " \o formatDefaultValue(column.default[1]) >> ELSE << >>)
        bracketed(cs) == IF Len(cs) > 0 THEN " [" \o join(cs, ", ") \o "]" ELSE ""
        columnLine(table, column) ==
            "  " \o column.name \o " " \o formatColumnTypeForDBML(column)
                \o bracketed(constraints(table, column)) \o "\n"
        indexBlock(index) ==
            IF index.type # "INDEX" THEN ""
            ELSE "\n  Indexes {\n    (" \o join(index.columns, ", ") \o ") ["
                     \o (IF index.unique THEN "unique, " ELSE "")
                     \o "name: '" \o index.name \o "']\n  }\n"
        tableBlock(table) ==
            "Table " \o table.name \o " {\n"
                \o Concat([ j \in 1..Len(table.columns) |-> columnLine(table, table.columns[j]) ])
                \o Concat([ j \in 1..Len(table.indexes) |-> indexBlock(table.indexes[j]) ])
                \o "}\n\n"
        ref(table, fk) ==
            "Ref: " \o table.name \o "." \o join(fk.columns, ", ") \o " > "
                \o fk.referencedTable \o "." \o join(fk.referencedColumns, ", ") \o "\n"
        refs(table) ==
            Concat([ j \in 1..Len(table.foreignKeys) |-> ref(table, table.foreignKeys[j]) ])
        project ==
            IF "name" \in DOMAIN schema
            THEN "Project " \o schema.name \o " {\n  database_type: '" \o schema.dialect
                     \o "'\n}\n\n"
            ELSE ""
    IN  trim(project
             \o Concat([ k \in 1..Len(schema.tables) |-> tableBlock(schema.tables[k]) ])
             \o Concat([ k \in 1..Len(schema.tables) |-> refs(schema.tables[k]) ]))

(***************************************************************************)
(* OutputFormatService.toJSON: JSON.stringify(schema, null, 2).  The text  *)
(* is kept as the JSON value it writes: an object is the sequence of its   *)
(* members in property order, without the properties whose value is        *)
(* undefined; a number that is not finite is written as null.              *)
(***************************************************************************)
JsonNull == [ json |-> "null" ]

JsonBoolean(b) == [ json |-> "boolean", bool |-> b ]

JsonNumber(n) == [ json |-> "number", num |-> n ]

JsonString(s) == [ json |-> "string", str |-> s ]

JsonArray(items) == [ json |-> "array", items |-> items ]

\* properties: pairs of a key and None (undefined) or Some(the JSON value)
JsonObject(properties) ==
    LET written(ps) == [ k \in 1..Len(ps) |-> << ps[k][1], ps[k][2][1] >> ]
    IN  [ json |-> "object",
          members |-> written(SelectSeq(properties, LAMBDA p : p[2] # None)) ]

JsonStrings(names) == JsonArray([ k \in 1..Len(names) |-> JsonString(names[k]) ])

optionalNumber(n) == IF n = None THEN None ELSE Some(JsonNumber(n[1]))

optionalString(s) == IF s = None THEN None ELSE Some(JsonString(s[1]))

defaultJson(default) ==
    IF default = None THEN None
    ELSE IF default[1].kind = "boolean" THEN Some(JsonBoolean(default[1].bool))
    ELSE IF default[1].kind = "number" THEN Some(JsonNumber(default[1].num))
    ELSE IF default[1].kind = "string" THEN Some(JsonString(default[1].str))
    ELSE Some(JsonNull)

columnJson(column) ==
    JsonObject(<< << "name", Some(JsonString(column.name)) >>,
                  << "type", Some(JsonObject(
                        << << "type", Some(JsonString(column.type.type)) >>,
                           << "length", optionalNumber(column.type.length) >>,
                           << "scale", optionalNumber(column.type.scale) >> >>)) >>,
                  << "nullable", Some(JsonBoolean(column.nullable)) >>,
                  << "autoIncrement", Some(JsonBoolean(column.autoIncrement)) >>,
                  << "default", defaultJson(column.default) >> >>)

indexJson(index) ==
    JsonObject(<< << "name", Some(JsonString(index.name)) >>,
                  << "type", Some(JsonString(index.type)) >>,
                  << "columns", Some(JsonStrings(index.columns)) >>,
                  << "unique", Some(JsonBoolean(index.unique)) >> >>)

foreignKeyJson(fk) ==
    JsonObject(<< << "name", Some(JsonString(fk.name)) >>,
                  << "columns", Some(JsonStrings(fk.columns)) >>,
                  << "referencedTable", Some(JsonString(fk.referencedTable)) >>,
                  << "referencedColumns", Some(JsonStrings(fk.referencedColumns)) >>,
                  << "onUpdate", optionalString(fk.onUpdate) >>,
                  << "onDelete", optionalString(fk.onDelete) >> >>)

tableJson(table) ==
    JsonObject(<< << "name", Some(JsonString(table.name)) >>,
                  << "columns", Some(JsonArray([ k \in 1..Len(table.columns) |->
                                                   columnJson(table.columns[k]) ])) >>,
                  << "primaryKey", IF table.primaryKey = None THEN None
                                   ELSE Some(JsonStrings(table.primaryKey[1])) >>,
                  << "uniqueKeys", Some(JsonArray([ k \in 1..Len(table.uniqueKeys) |->
                                                      JsonStrings(table.uniqueKeys[k]) ])) >>,
                  << "indexes", Some(JsonArray([ k \in 1..Len(table.indexes) |->
                                                   indexJson(table.indexes[k]) ])) >>,
                  << "foreignKeys", Some(JsonArray([ k \in 1..Len(table.foreignKeys) |->
                                                       foreignKeyJson(table.foreignKeys[k]) ])) >> >>)

relationshipJson(rel) ==
    JsonObject(<< << "fromTable", Some(JsonString(rel.fromTable)) >>,
                  << "toTable", Some(JsonString(rel.toTable)) >>,
                  << "fromColumn", Some(JsonString(rel.fromColumn)) >>,
                  << "toColumn", Some(JsonString(rel.toColumn)) >>,
                  << "type", Some(JsonString(rel.type)) >>,
                  << "name", Some(JsonString(rel.name)) >> >>)

\* the relationships of an object that has such a property (a ParsedSQL)
relationshipsJson(schema) ==
    IF "relationships" \notin DOMAIN schema \/ schema.relationships = None THEN None
    ELSE Some(JsonArray([ k \in 1..Len(schema.relationships[1]) |->
                            relationshipJson(schema.relationships[1][k]) ]))

toJSON(schema) ==
    JsonObject(<< << "dialect", Some(JsonString(schema.dialect)) >>,
                  << "tables", Some(JsonArray([ k \in 1..Len(schema.tables) |->
                                                  tableJson(schema.tables[k]) ])) >>,
                  << "version", Some(JsonString(schema.version)) >>,
                  << "relationships", relationshipsJson(schema) >> >>)

(***************************************************************************)
(* JSON.parse of that text, read as a DatabaseSchema: a property that is   *)
(* not in the object reads as undefined.                                   *)
(***************************************************************************)
member(object, key) ==
    LET at(ks) == IF ks = {} THEN None ELSE Some(object.members[CHOOSE k \in ks : TRUE][2])
    IN  at({ k \in 1..Len(object.members) : object.members[k][1] = key })

stringsOf(array) == [ k \in 1..Len(array.items) |-> array.items[k].str ]

numberRead(value) == IF value = None THEN None ELSE Some(value[1].num)

stringRead(value) == IF value = None THEN None ELSE Some(value[1].str)

defaultRead(value) ==
    IF value = None THEN None
    ELSE IF value[1].json = "null" THEN Some([ kind |-> "null" ])
    ELSE IF value[1].json = "boolean" THEN Some([ kind |-> "boolean", bool |-> value[1].bool ])
    ELSE IF value[1].json = "number" THEN Some([ kind |-> "number", num |-> value[1].num ])
    ELSE Some([ kind |-> "string", str |-> value[1].str ])

columnRead(object) ==
    LET typed(type) ==
            [ name |-> member(object, "name")[1].str,
              type |-> [ type   |-> member(type, "type")[1].str,
                         length |-> numberRead(member(type, "length")),
                         scale  |-> numberRead(member(type, "scale")) ],
              nullable |-> member(object, "nullable")[1].bool,
              autoIncrement |-> member(object, "autoIncrement")[1].bool,
              default |-> defaultRead(member(object, "default")) ]
    IN  typed(member(object, "type")[1])

indexRead(object) ==
    [ name |-> member(object, "name")[1].str,
      type |-> member(object, "type")[1].str,
      columns |-> stringsOf(member(object, "columns")[1]),
      unique |-> member(object, "unique")[1].bool ]

foreignKeyRead(object) ==
    [ name |-> member(object, "name")[1].str,
      columns |-> stringsOf(member(object, "columns")[1]),
      referencedTable |-> member(object, "referencedTable")[1].str,
      referencedColumns |-> stringsOf(member(object, "referencedColumns")[1]),
      onUpdate |-> stringRead(member(object, "onUpdate")),
      onDelete |-> stringRead(member(object, "onDelete")) ]

itemsRead(array, Read(_)) == [ k \in 1..Len(array.items) |-> Read(array.items[k]) ]

tableRead(object) ==
    LET key(value) == IF value = None THEN None ELSE Some(stringsOf(value[1]))
    IN  [ name |-> member(object, "name")[1].str,
          columns |-> itemsRead(member(object, "columns")[1], columnRead),
          primaryKey |-> key(member(object, "primaryKey")),
          uniqueKeys |-> itemsRead(member(object, "uniqueKeys")[1], stringsOf),
          indexes |-> itemsRead(member(object, "indexes")[1], indexRead),
          foreignKeys |-> itemsRead(member(object, "foreignKeys")[1], foreignKeyRead) ]

\* JSON.parse(text) as DatabaseSchema
schemaRead(object) ==
    [ dialect |-> member(object, "dialect")[1].str,
      tables |-> itemsRead(member(object, "tables")[1], tableRead),
      version |-> member(object, "version")[1].str ]

(***************************************************************************)
(* MermaidService.generateERDiagram (front end).  parsedData is a schema   *)
(* of the back end, with the property relationships absent (None) or a     *)
(* list.                                                                   *)
(***************************************************************************)
\* a faulty variant of the list below: nothing is derived from the foreign keys
relationshipsGiven(data) ==
    IF data.relationships = None THEN << >> ELSE data.relationships[1]

\* const relationshipsToRender = relationships || [], after the block that
\* fills it from the foreign keys when it is empty
relationshipsToRender(data) ==
    LET derived(table) ==
            [ j \in 1..Len(table.foreignKeys) |->
                [ fromTable |-> table.name,
                  toTable |-> table.foreignKeys[j].referencedTable,
                  fromColumn |-> IF Len(table.foreignKeys[j].columns) > 0
                                 THEN table.foreignKeys[j].columns[1] ELSE "",
                  toColumn |-> IF Len(table.foreignKeys[j].referencedColumns) > 0
                               THEN table.foreignKeys[j].referencedColumns[1] ELSE "",
                  type |-> "one-to-many",
                  name |-> table.foreignKeys[j].name ] ]
        filled(list) ==
            IF Len(list) = 0
            THEN Flatten([ k \in 1..Len(data.tables) |-> derived(data.tables[k]) ])
            ELSE list
    IN  filled(IF data.relationships = None THEN << >> ELSE data.relationships[1])

relationshipSymbol(type) ==
    IF type = "one-to-one" THEN "||--||"
    ELSE IF type = "many-to-many" THEN "}o--o{"
    ELSE "||--o{"

\* the diagram returned at time now
generateERDiagram(data, now) ==
    LET columnDef(table, column) ==
            "        " \o column.type.type \o " " \o column.name
                \o (IF inPrimaryKey(table, column.name) THEN " PK" ELSE "")
                \o (IF isForeignKey(table, column.name) THEN " FK" ELSE "")
                \o (IF ~column.nullable THEN " \"NOT NULL\"" ELSE "")
                \o (IF column.autoIncrement THEN " \"AUTO_INCREMENT\"" ELSE "") \o "\n"
        entity(table) ==
            "    " \o table.name \o " {\n"
                \o Concat([ j \in 1..Len(table.columns) |-> columnDef(table, table.columns[j]) ])
                \o "    }\n"
        line(rel) ==
            "    " \o rel.fromTable \o " " \o relationshipSymbol(rel.type) \o " " \o rel.toTable
                \o " : \""
                \o (IF rel.name # "" THEN rel.name ELSE rel.fromColumn \o "_" \o rel.toColumn)
                \o "\"\n"
        rendered(rels) == Concat([ k \in 1..Len(rels) |-> line(rels[k]) ])
    IN  [ code |-> "erDiagram\n"
                       \o Concat([ k \in 1..Len(data.tables) |->
                                     entity(data.tables[k]) ])
                       \o rendered(relationshipsToRender(data)),
          title |-> "ER Diagram - " \o data.dialect,
          generatedAt |-> now ]

(***************************************************************************)
(* The callers of parseDdl: the route POST /api/parse, and a user of the   *)
(* formatters that holds the schema returned.                              *)
(***************************************************************************)
\* the formatter calls made on one object, and the clock of new Date()
MaxCalls == 3

MaxTime == 2

CommentsOnly == OtherText("-- CREATE TABLE old (id INT);\n/* CREATE TABLE gone (id INT); */")

UsersStatement ==
    TableStatement("users", "id INT AUTO_INCREMENT PRIMARY KEY, name VARCHAR(50) NOT NULL",
                   Some("id"))

PostsStatement ==
    Statement("posts", "id SERIAL, user_id INT, FOREIGN KEY (user_id) REFERENCES users(id) ON DELETE CASCADE",
              TRUE, None, FALSE, None,
              Some([ columns |-> << "user_id" >>, referencedTable |-> "users",
                     referencedColumns |-> << "id" >>,
                     onDelete |-> Some("CASCADE"), onUpdate |-> None ]),
              None)

\* every kind of default value: text, number, boolean, null
DefaultsStatement ==
    TableStatement("prefs", "id INT NOT NULL, theme VARCHAR(20) DEFAULT 'dark', retries INT DEFAULT 3, offset INT DEFAULT -1, active BOOLEAN DEFAULT TRUE, note TEXT DEFAULT NULL, price DECIMAL(10,2)",
                   None)

InfiniteDefaultStatement ==
    TableStatement("limits", "id INT NOT NULL, ceiling FLOAT DEFAULT Infinity", None)

\* a table with the same foreign key written twice
TwiceReferencingStatement ==
    Statement("links", "id INT NOT NULL, user_id INT, FOREIGN KEY (user_id) REFERENCES users(id), FOREIGN KEY (user_id) REFERENCES users(id)",
              TRUE, None, FALSE, None,
              Some([ columns |-> << "user_id" >>, referencedTable |-> "users",
                     referencedColumns |-> << "id" >>,
                     onDelete |-> None, onUpdate |-> None ]),
              None)

ServiceStatements ==
    { << UsersStatement >>, << PostsStatement >>, << UsersStatement, PostsStatement >>,
      << TwiceReferencingStatement >>,
      << DefaultsStatement >>, << InfiniteDefaultStatement >>,
      << FailingStatement("items", "id INT NOT NULL, name",
                          "Unable to parse column type for: name", FALSE) >>,
      << Statement("invalid", "", FALSE, None, FALSE, None, None, None) >>,
      << OtherText("INVALID SQL STATEMENT") >>,
      << CommentsOnly >> }

\* a well-formed request: sql of one character at least, dialect and options optional
ServiceInit ==
    /\ stmts \in ServiceStatements \cup { << >> }
    /\ sql = IF stmts = << >> THEN " " ELSE SqlText(stmts)
    /\ dialect \in DialectInputs
    /\ options \in [ inferDialect : { None }, includeIndexes : { None },
                     includeActions : { None }, strict : { None, Some(TRUE) } ]
    /\ pc = "start"
    /\ mergedOptions = None
    /\ detection = None
    /\ actualDialect = None
    /\ cleaned = ""
    /\ lastIndex = 1
    /\ current = None
    /\ outcome = None
    /\ tables = << >>
    /\ parsed = << >>
    /\ log = << >>
    /\ result = None
    /\ NoCaller
    /\ Quiet

parseState == << mergedOptions, detection, actualDialect, scanState, pc, result >>

(***************************************************************************)
(* router.post('/parse'): what follows the awaited parseDdl.  The times of *)
(* the metadata are left out.                                              *)
(***************************************************************************)
\* a faulty variant of the test below: the comments count as content
hasText(text) == Len(trim(text)) > 0

\* cleanSql.length > 0: the text without its comments is not blank
hasContent(text) ==
    Len(trim(removeBlockComments(removeLineComments(trim(text))))) > 0

Settled == pc = "done" /\ result # None /\ NoCaller

\* return res.status(400).json({success: false, error: '...', metadata: {tablesFound: 0}})
RespondUnparsed ==
    /\ Settled /\ ~result[1].error
    /\ Len(result[1].value.tables) = 0 /\ hasContent(sql)
    /\ response' = Some([ status |-> 400, success |-> FALSE,
                          error |-> Some("Unable to parse any valid table definitions from the provided SQL"),
                          data |-> None,
                          metadata |-> [ tablesFound |-> 0 ] ])
    /\ UNCHANGED << inputs, apart, parseState, parsedData, outputs >>

\* res.json({success: true, data: {schema, mermaid, dbml, json}, metadata})
RespondParsed ==
    /\ Settled /\ ~result[1].error
    /\ ~(Len(result[1].value.tables) = 0 /\ hasContent(sql))
    /\ LET answer(schema) ==
               response' = Some([ status |-> 200, success |-> TRUE, error |-> None,
                                  data |-> Some([ schema |-> schema,
                                                  mermaid |-> toMermaidER(schema),
                                                  dbml |-> toDBML(schema),
                                                  json |-> toJSON(schema) ]),
                                  metadata |-> [ dialectUsed |-> schema.dialect,
                                                 tablesFound |-> Len(schema.tables) ] ])
       IN  answer(result[1].value)
    /\ UNCHANGED << inputs, apart, parseState, parsedData, outputs >>

\* catch (error): res.status(400).json({success: false, error: {message, code}, metadata})
RespondError ==
    /\ Settled /\ result[1].error
    /\ response' = Some([ status |-> 400, success |-> FALSE,
                          error |-> Some(result[1].message), data |-> None,
                          metadata |-> [ dialectUsed |-> "unknown", tablesFound |-> 0 ] ])
    /\ UNCHANGED << inputs, apart, parseState, parsedData, outputs >>

(***************************************************************************)
(* A user of the formatters: it holds the schema parseDdl returned as its  *)
(* object (held keeps the value the object had then), and calls            *)
(* toMermaidER, toDBML, toJSON and generateERDiagram on it in any order.   *)
(***************************************************************************)
\* the relationships property of the object: absent, an empty list, or a list
RelationshipLists ==
    { None, Some(<< >>),
      Some(<< [ fromTable |-> "posts", toTable |-> "users", fromColumn |-> "user_id",
                toColumn |-> "id", type |-> "one-to-one", name |-> "" ] >>) }

WithRelationships(schema, list) ==
    [ dialect |-> schema.dialect, tables |-> schema.tables, version |-> schema.version,
      relationships |-> list ]

Hold ==
    /\ Settled /\ ~result[1].error
    /\ \E list \in RelationshipLists :
           parsedData' = Some([ held |-> WithRelationships(result[1].value, list),
                                object |-> WithRelationships(result[1].value, list) ])
    /\ UNCHANGED << inputs, apart, parseState, response, outputs >>

Callable == parsedData # None /\ Len(outputs) < MaxCalls

ToMermaidER ==
    /\ Callable
    /\ outputs' = Append(outputs, [ call |-> "toMermaidER",
                                    output |-> toMermaidER(parsedData[1].object) ])
    /\ UNCHANGED << inputs, apart, parseState, response, parsedData >>

ToDBML ==
    /\ Callable
    /\ outputs' = Append(outputs, [ call |-> "toDBML",
                                    output |-> toDBML(parsedData[1].object) ])
    /\ UNCHANGED << inputs, apart, parseState, response, parsedData >>

ToJSON ==
    /\ Callable
    /\ outputs' = Append(outputs, [ call |-> "toJSON",
                                    output |-> toJSON(parsedData[1].object) ])
    /\ UNCHANGED << inputs, apart, parseState, response, parsedData >>

\* the time of the latest call of generateERDiagram (the clock does not go back)
latestTime(outs) ==
    LET times == { outs[k].output.generatedAt :
                       k \in { j \in 1..Len(outs) : outs[j].call = "generateERDiagram" } }
    IN  IF times = {} THEN 1 ELSE CHOOSE t \in times : \A u \in times : u <= t

\* relationshipsToRender is the list of the object when it has one: what is
\* pushed into it stays in the object
GenerateERDiagram ==
    /\ Callable
    /\ \E now \in latestTime(outputs)..MaxTime :
           outputs' = Append(outputs, [ call |-> "generateERDiagram",
                                        output |-> generateERDiagram(parsedData[1].object, now) ])
    /\ parsedData' = IF parsedData[1].object.relationships = None THEN parsedData
                     ELSE Some([ parsedData[1] EXCEPT
                                   !.object.relationships =
                                       Some(relationshipsToRender(parsedData[1].object)) ])
    /\ UNCHANGED << inputs, apart, parseState, response >>

ServiceNext ==
    \/ Next
    \/ RespondUnparsed
    \/ RespondParsed
    \/ RespondError
    \/ Hold
    \/ ToMermaidER
    \/ ToDBML
    \/ ToJSON
    \/ GenerateERDiagram

ServiceSpec == ServiceInit /\ [][ServiceNext]_vars

\* the route has answered
Answered == response # None

(***************************************************************************)
(* Calls of parseDdl on one table whose body is written clause by clause.  *)
(* A clause is kept with its leading keyword ("column" when the keyword is *)
(* none of PRIMARY KEY, UNIQUE, FOREIGN KEY, INDEX, KEY).                  *)
(***************************************************************************)
Clause(text, class) == [ text |-> text, class |-> class ]

Body(family, clauses) ==
    [ family |-> family, clauses |-> clauses ]

BodyClauses(st) == join([ k \in 1..Len(st.clauses) |-> st.clauses[k].text ], ", ")

BodyText(st) == "CREATE TABLE t (" \o BodyClauses(st) \o ");"

\* the clauses of the bodies of the classification: after a first column,
\* one or two of these
KeywordClauses ==
    { Clause("name VARCHAR(50)", "column"),
      Clause("keyword VARCHAR(10)", "column"),
      Clause("CHECK (id > 0)", "column"),
      Clause("CONSTRAINT fk_user FOREIGN KEY (id) REFERENCES users(id)", "column"),
      Clause("PRIMARY KEY (id)", "primary"),
      Clause(" primary key (id)", "primary"),
      Clause("UNIQUE (id)", "unique"),
      Clause("FOREIGN KEY (id) REFERENCES users(id)", "foreign"),
      Clause("INDEX idx_id (id)", "index"),
      Clause("KEY idx_key (id)", "index") }

FirstColumn == Clause("id INT NOT NULL", "column")

KeywordBodies ==
    { Body("keyword", << FirstColumn, c >>) : c \in KeywordClauses }
        \cup { Body("keyword", << FirstColumn, c, d >>) : c, d \in KeywordClauses }

\* the columns of the bodies without a PRIMARY KEY clause: one to
\* MaxKeyColumns of these
MaxKeyColumns == 3

KeyColumns ==
    { Clause("user_id INT", "column"),
      Clause("seq INT AUTO_INCREMENT", "column"),
      Clause("PAID BOOLEAN NOT NULL", "column"),
      Clause("name VARCHAR(50) NOT NULL", "column") }

KeyBodies ==
    { Body("key", cs) : cs \in SeqsUpTo(KeyColumns, MaxKeyColumns) }

\* bodies with parentheses inside quoted spans
QuotedClauses ==
    { Clause("note VARCHAR(20) DEFAULT 'a(b)c'", "column"),
      Clause("mark VARCHAR(2) DEFAULT ')'", "column"),
      Clause("mark VARCHAR(2) DEFAULT '('", "column"),
      Clause("mark VARCHAR(2) DEFAULT \"(\"", "column"),
      Clause(Backtick \o "we)ird" \o Backtick \o " INT", "column"),
      Clause("price DECIMAL(10,2) DEFAULT (0)", "column") }

QuotedBodies ==
    { Body("quoted", << FirstColumn, c >>) : c \in QuotedClauses }
        \cup { Body("quoted", << c, FirstColumn >>) : c \in QuotedClauses }

BodyStatements == KeywordBodies \cup KeyBodies \cup QuotedBodies

BodyOptions ==
    [ inferDialect   : { None },
      includeIndexes : { None, Some(FALSE) },
      includeActions : { None },
      strict         : { None, Some(TRUE) } ]

BodyInit ==
    /\ stmts \in { << st >> : st \in BodyStatements } \cup { << >> }
    /\ sql = IF stmts = << >> THEN "" ELSE BodyText(stmts[1])
    /\ dialect \in DialectInputs
    /\ options \in BodyOptions
    /\ pc = "start"
    /\ mergedOptions = None
    /\ detection = None
    /\ actualDialect = None
    /\ cleaned = ""
    /\ lastIndex = 1
    /\ current = None
    /\ outcome = None
    /\ tables = << >>
    /\ parsed = << >>
    /\ log = << >>
    /\ result = None
    /\ NoCaller
    /\ Quiet

BodySpec == BodyInit /\ [][Next]_vars

\* parseTableDefinition has returned or thrown for the body of the family
BodyParsed(family) ==
    /\ stmts # << >> /\ stmts[1].family = family
    /\ pc = "parsed"

\* the number of clauses of the body with this leading keyword
ClausesOf(class) ==
    Cardinality({ k \in 1..Len(stmts[1].clauses) : stmts[1].clauses[k].class = class })

ColumnErrors == { "Unable to parse column name for: ", "Unable to parse column type for: " }

IsColumnError(message) == \E prefix \in ColumnErrors : startsWith(message, prefix)

\* C22: every clause of a table body counts in the class of its leading
\* keyword: a PRIMARY KEY clause sets the primary key, each UNIQUE clause
\* adds a unique key, each FOREIGN KEY clause a foreign key, each INDEX or
\* KEY clause an index when includeIndexes is on, and each other clause adds
\* a column, unless a column parse error is raised.
C22_ClausesClassified ==
    BodyParsed("keyword") =>
        IF outcome[1].error THEN IsColumnError(outcome[1].message)
        ELSE /\ Len(outcome[1].value.columns) = ClausesOf("column")
             /\ Len(outcome[1].value.uniqueKeys) = ClausesOf("unique")
             /\ Len(outcome[1].value.foreignKeys) = ClausesOf("foreign")
             /\ ClausesOf("primary") > 0 => outcome[1].value.primaryKey = Some(<< "id" >>)
             /\ indexesAsked => Len(outcome[1].value.indexes) = ClausesOf("index")

\* a body with a CONSTRAINT ... FOREIGN KEY clause is parsed without an
\* error: the clause gave no column and no foreign key
C22_Witness ==
    /\ BodyParsed("keyword")
    /\ stmts[1].clauses
           = << FirstColumn,
                Clause("CONSTRAINT fk_user FOREIGN KEY (id) REFERENCES users(id)", "column") >>
    /\ ~outcome[1].error
    /\ Len(outcome[1].value.columns) = 1
    /\ Len(outcome[1].value.foreignKeys) = 0

\* the header of the body was found by the scan
BodyScanned(family) ==
    /\ stmts # << >> /\ stmts[1].family = family
    /\ pc # "start" /\ lastIndex > 1

\* C24: the table body extracted for a CREATE TABLE header is the text
\* between its opening parenthesis and the matching closing one, where the
\* parentheses inside quoted spans do not count.
C24_BodyBetweenParens ==
    BodyScanned("quoted") =>
        current = Some([ tableName |-> "t", tableBody |-> BodyClauses(stmts[1]) ])

\* the body with the default ')' is cut at the quoted parenthesis
C24_Witness ==
    /\ BodyScanned("quoted")
    /\ stmts[1].clauses = << Clause("mark VARCHAR(2) DEFAULT ')'", "column"), FirstColumn >>
    /\ current = Some([ tableName |-> "t", tableBody |-> "mark VARCHAR(2) DEFAULT '" ])

\* the columns of the parsed table that are autoIncrement, or are not
\* nullable and have "id" in their name
KeyCandidates(columns) ==
    { k \in 1..Len(columns) :
          \/ columns[k].autoIncrement
          \/ /\ \E i \in 1..Len(columns[k].name) - 1 :
                    toLowerCase(SubSeq(columns[k].name, i, i + 1)) = "id"
             /\ ~columns[k].nullable }

\* C25: the primary key of a table without a PRIMARY KEY clause is the one
\* column that is autoIncrement or is not nullable with "id" in its name
\* (whatever the case); with no such column, or several, it is left unset.
C25_InferredPrimaryKey ==
    (BodyParsed("key") /\ ~outcome[1].error) =>
        LET inferred(columns, candidates) ==
                IF Cardinality(candidates) = 1
                THEN \E k \in candidates :
                         outcome[1].value.primaryKey = Some(<< columns[k].name >>)
                ELSE outcome[1].value.primaryKey = None
            among(columns) == inferred(columns, KeyCandidates(columns))
        IN  among(outcome[1].value.columns)

\* the table of user_id, PAID and name: PAID is the only candidate
C25_Witness ==
    /\ BodyParsed("key") /\ ~outcome[1].error
    /\ Len(outcome[1].value.columns) = 3
    /\ outcome[1].value.columns[1].name = "user_id"
    /\ outcome[1].value.columns[3].name = "name"
    /\ KeyCandidates(outcome[1].value.columns) = { 2 }
    /\ outcome[1].value.primaryKey = Some(<< "PAID" >>)

(***************************************************************************)
(* Calls of splitTableStatements on a table body written as pieces joined  *)
(* by commas: a piece has its commas inside parentheses or quoted spans    *)
(* only, and is not blank.                                                 *)
(***************************************************************************)
MaxPieces == 2

Pieces ==
    { "a INT",
      " price DECIMAL(10,2)",
      " note VARCHAR(20) DEFAULT 'x,y'",
      " tag VARCHAR(9) DEFAULT \"p,q\"",
      " " \o Backtick \o "odd,name" \o Backtick \o " INT",
      " PRIMARY KEY (a, b)",
      " CHECK (f(g(1, 2)))",
      " q VARCHAR(5) DEFAULT '(,'",
      " r CHAR(1) DEFAULT '),'",
      " s VARCHAR(9) DEFAULT 'it''s, ok'" }

SplitBodies ==
    { [ family |-> "split", pieces |-> ps ] : ps \in SeqsUpTo(Pieces, MaxPieces) }

SplitInit ==
    /\ stmts \in { << b >> : b \in SplitBodies }
    /\ sql = join(stmts[1].pieces, ",")
    /\ dialect = None
    /\ options = [ inferDialect |-> None, includeIndexes |-> None,
                   includeActions |-> None, strict |-> None ]
    /\ pc = "start"
    /\ mergedOptions = None
    /\ detection = None
    /\ actualDialect = None
    /\ cleaned = ""
    /\ lastIndex = 1
    /\ current = None
    /\ outcome = None
    /\ tables = << >>
    /\ parsed = << >>
    /\ log = << >>
    /\ result = None
    /\ NoCaller
    /\ Quiet

\* const statements = this.splitTableStatements(tableBody)
Split ==
    /\ pc = "start"
    /\ outcome' = Some(splitTableStatements(sql))
    /\ pc' = "done"
    /\ UNCHANGED << inputs, apart, caller, mergedOptions, detection, actualDialect, cleaned,
                    lastIndex, current, tables, parsed, log, result >>

SplitNext == Split

SplitSpec == SplitInit /\ [][SplitNext]_vars

HasSplit == pc = "done" /\ outcome # None

\* C23: splitTableStatements cuts the body at the commas at depth 0 outside
\* quoted spans and nowhere else: the statements are the pieces the body was
\* written from, in their order, whatever commas the pieces hold inside
\* type parameters, quoted literals, quoted names and nested column lists.
C23_SplitAtTopLevelCommas ==
    HasSplit => outcome[1] = stmts[1].pieces

\* the body of a CHECK nested three deep before a literal with ')' and ','
C23_Witness ==
    /\ HasSplit
    /\ stmts[1].pieces = << " CHECK (f(g(1, 2)))", " r CHAR(1) DEFAULT '),'" >>
    /\ Len(outcome[1]) = 2
    /\ outcome[1][1] = " CHECK (f(g(1, 2)))"
    /\ outcome[1][2] = " r CHAR(1) DEFAULT '),'"

(***************************************************************************)
(* Invocations side by side.  parseDdl is an async function: it runs up to *)
(* an await, yields, and is resumed later, and other invocations run in    *)
(* between.  parseTableDefinition awaits nothing, so the awaits that yield *)
(* are the one in the loop of parseTableStatements and the one of parseDdl *)
(* on parseTableStatements.  detectDialect is synchronous.                 *)
(***************************************************************************)
MaxParseCalls == 2

\* the texts that are written with a comment in front
CommentedBases ==
    { "CREATE TABLE users (id INT NOT NULL, name VARCHAR(50));",
      "CREATE TABLE invalid (\nCREATE TABLE posts (id SERIAL, user_id INT);" }

\* the texts that are parsed with the dialect given
PlainBases ==
    { "CREATE TABLE items (id INT NOT NULL, name);\nCREATE TABLE users (id INT NOT NULL);",
      "" }

\* the comments written in front of a text
CommentsWritten ==
    { "", "-- first draft\n", "-- ENGINE=InnoDB AUTO_INCREMENT\n", "/* BIGSERIAL */ " }

CallInput(kind, comment, base, d, strict) ==
    [ kind |-> kind, comment |-> comment, base |-> base, sql |-> comment \o base,
      dialect |-> d,
      options |-> [ inferDialect |-> None, includeIndexes |-> None,
                    includeActions |-> None, strict |-> strict ] ]

CallInputs ==
    { CallInput("parseDdl", comment, base, None, None) :
          comment \in CommentsWritten, base \in CommentedBases }
    \cup { CallInput("parseDdl", "", base, Some("mysql"), strict) :
               base \in PlainBases, strict \in { None, Some(TRUE) } }
    \cup { CallInput("detectDialect", comment, base, None, None) :
               comment \in { "", "/* BIGSERIAL */ " },
               base \in { "CREATE TABLE users (id INT NOT NULL, name VARCHAR(50));" } }

\* the locals of an invocation that has not started
NewCall(input) ==
    [ input |-> input, pc |-> "start", mergedOptions |-> None, actualDialect |-> None,
      cleaned |-> "", current |-> None, outcome |-> None, tables |-> << >>,
      result |-> None ]

ConcurrentInit ==
    /\ stmts = << >>
    /\ sql = ""
    /\ dialect = None
    /\ options = [ inferDialect |-> None, includeIndexes |-> None,
                   includeActions |-> None, strict |-> None ]
    /\ pc = "start"
    /\ mergedOptions = None
    /\ detection = None
    /\ actualDialect = None
    /\ cleaned = ""
    /\ lastIndex = 1
    /\ current = None
    /\ outcome = None
    /\ tables = << >>
    /\ parsed = << >>
    /\ log = << >>
    /\ result = None
    /\ NoCaller
    /\ calls \in [ 1..MaxParseCalls -> { NewCall(input) : input \in CallInputs } ]
    /\ regexIndex = [ c \in 1..MaxParseCalls |-> 0 ]
    /\ dialectPatterns = initialPatternScore
    /\ app = initialState
    /\ requests = << >>
    /\ banner = NoBanner

\* a faulty variant of the object below: one regex object, created once, serves
\* every invocation
sharedRegexObject(c) == 1

\* const createTableRegex = /.../gis inside parseTableStatements: evaluating
\* the literal creates an object, one for each invocation
regexObject(c) == c

\* Object.values(this.DIALECT_PATTERNS).forEach(pattern => { pattern.score = 0; })
resetPatternScores(scores) == [ d \in DOMAIN scores |-> 0 ]

\* the loop of parseTableStatements from an exec to the await it reaches, or to
\* its end: a header without its closing parenthesis is passed over, and exec
\* returning null sets lastIndex back to the start
RECURSIVE nextAwait(_, _)
nextAwait(text, from) ==
    LET closed(match, closing) ==
            IF closing.depth = 0
            THEN [ found |-> TRUE, lastIndex |-> nextSearchFrom(match, closing),
                   tableName |-> cleanIdentifier(Group(match, 1)),
                   tableBody |-> SubSeq(text, match.p, closing.i - 2) ]
            ELSE nextAwait(text, nextSearchFrom(match, closing))
        found(match) ==
            IF match.p = 0
            THEN [ found |-> FALSE, lastIndex |-> 1, tableName |-> "", tableBody |-> "" ]
            ELSE closed(match, matchParen(text, match.p, 1))
    IN  found(createTableRegexExec(text, from))

\* the locals of an invocation when its loop has run from exec to the next await
atAwait(call, n) ==
    IF n.found
    THEN [ call EXCEPT !.pc = "definition",
                       !.current = Some([ tableName |-> n.tableName,
                                          tableBody |-> n.tableBody ]),
                       !.outcome = Some(parseTableDefinition(n.tableName, n.tableBody,
                                                             call.actualDialect[1],
                                                             call.mergedOptions[1])) ]
    ELSE [ call EXCEPT !.pc = "statements" ]

\* the loop goes on with the regex object of invocation c
Loop(c, call, index) ==
    LET reached(n) ==
            /\ calls' = [ calls EXCEPT ![c] = atAwait(call, n) ]
            /\ regexIndex' = [ index EXCEPT ![regexObject(c)] = n.lastIndex ]
    IN  reached(nextAwait(call.cleaned, index[regexObject(c)]))

\* the dialect parseDdl goes on with
resolvedDialect(input, merged) ==
    IF input.dialect = None /\ merged.inferDialect
    THEN detectedDialect(detectDialect(input.sql))
    ELSE input.dialect

finished(call, outcome_) == [ call EXCEPT !.pc = "done", !.result = Some(outcome_) ]

\* DialectDetectionService.detectDialect(sql), called directly
CallDetectDialect(c) ==
    /\ calls[c].pc = "start"
    /\ calls[c].input.kind = "detectDialect"
    /\ calls' = [ calls EXCEPT ![c] = finished(calls[c], Ok(detectDialect(calls[c].input.sql))) ]
    /\ dialectPatterns' = resetPatternScores(dialectPatterns)
    /\ UNCHANGED << inputs, caller, mergedOptions, detection, actualDialect, scanState, result,
                    pc, regexIndex, app, requests, banner >>

\* parseDdl is called and throws before it awaits
EnterThrow(c) ==
    /\ calls[c].pc = "start"
    /\ calls[c].input.kind = "parseDdl"
    /\ LET input == calls[c].input
           detects == ~isEmptySql(input.sql) /\ input.dialect = None
                          /\ mergeOptions(input.options).inferDialect
       IN  /\ \/ isEmptySql(input.sql)
                     /\ calls' = [ calls EXCEPT ![c] =
                                       finished(calls[c], Throw("SQL cannot be empty")) ]
              \/ ~isEmptySql(input.sql)
                     /\ resolvedDialect(input, mergeOptions(input.options)) = None
                     /\ calls' = [ calls EXCEPT ![c] =
                            finished([ calls[c] EXCEPT !.mergedOptions =
                                                           Some(mergeOptions(input.options)) ],
                                     Throw("Unable to determine SQL dialect. Please specify dialect explicitly.")) ]
           /\ dialectPatterns' = IF detects THEN resetPatternScores(dialectPatterns)
                              ELSE dialectPatterns
    /\ UNCHANGED << inputs, caller, mergedOptions, detection, actualDialect, scanState, result,
                    pc, regexIndex, app, requests, banner >>

\* parseDdl is called and runs to its first await: the options, the dialect,
\* cleanSql, and parseTableStatements with a regex object of its own
Enter(c) ==
    /\ calls[c].pc = "start"
    /\ calls[c].input.kind = "parseDdl"
    /\ ~isEmptySql(calls[c].input.sql)
    /\ LET input == calls[c].input
           entered(merged, d) ==
               /\ d # None
               /\ Loop(c, [ calls[c] EXCEPT !.mergedOptions = Some(merged),
                                            !.actualDialect = d,
                                            !.cleaned = cleanSql(input.sql) ],
                       [ regexIndex EXCEPT ![regexObject(c)] = 1 ])
               /\ dialectPatterns' = IF input.dialect = None /\ merged.inferDialect
                                  THEN resetPatternScores(dialectPatterns)
                                  ELSE dialectPatterns
       IN  entered(mergeOptions(input.options),
                   resolvedDialect(input, mergeOptions(input.options)))
    /\ UNCHANGED << inputs, caller, mergedOptions, detection, actualDialect, scanState, result,
                    pc, app, requests, banner >>

\* the await of parseTableDefinition resumes with a table: tables.push(table),
\* and the loop goes on
ResumePush(c) ==
    /\ calls[c].pc = "definition"
    /\ ~calls[c].outcome[1].error
    /\ Loop(c, [ calls[c] EXCEPT !.tables = Append(@, calls[c].outcome[1].value) ],
            regexIndex)
    /\ UNCHANGED << inputs, caller, mergedOptions, detection, actualDialect, scanState, result,
                    pc, dialectPatterns, app, requests, banner >>

\* the await resumes with an error in strict mode: the throw ends
\* parseTableStatements and parseDdl
ResumeThrow(c) ==
    /\ calls[c].pc = "definition"
    /\ calls[c].outcome[1].error
    /\ calls[c].mergedOptions[1].strict
    /\ calls' = [ calls EXCEPT ![c] =
                      finished(calls[c], Throw(failureText(calls[c].current[1].tableName,
                                                           calls[c].outcome[1].message))) ]
    /\ UNCHANGED << inputs, caller, mergedOptions, detection, actualDialect, scanState, result,
                    pc, regexIndex, dialectPatterns, app, requests, banner >>

\* the await resumes with an error otherwise: the warning goes to the standard
\* output of the process, and the loop goes on
ResumeWarn(c) ==
    /\ calls[c].pc = "definition"
    /\ calls[c].outcome[1].error
    /\ ~calls[c].mergedOptions[1].strict
    /\ log' = Append(log, "Warning: " \o failureText(calls[c].current[1].tableName,
                                                     calls[c].outcome[1].message) \o "\n")
    /\ Loop(c, calls[c], regexIndex)
    /\ UNCHANGED << inputs, caller, mergedOptions, detection, actualDialect, cleaned, lastIndex,
                    current, outcome, tables, parsed, result, pc, dialectPatterns, app, requests,
                    banner >>

\* the await of parseTableStatements resumes in parseDdl
ResumeStatements(c) ==
    /\ calls[c].pc = "statements"
    /\ calls' = [ calls EXCEPT ![c] =
           finished(calls[c],
                    IF noTablesInStrictMode(calls[c].mergedOptions[1].strict, calls[c].tables,
                                            calls[c].cleaned)
                    THEN Throw("Invalid SQL: Unable to parse any valid table definitions in strict mode")
                    ELSE Ok([ dialect |-> calls[c].actualDialect[1],
                              tables |-> calls[c].tables, version |-> "1.0" ])) ]
    /\ UNCHANGED << inputs, caller, mergedOptions, detection, actualDialect, scanState, result,
                    pc, regexIndex, dialectPatterns, app, requests, banner >>

ConcurrentNext ==
    \E c \in 1..MaxParseCalls :
        \/ CallDetectDialect(c)
        \/ EnterThrow(c)
        \/ Enter(c)
        \/ ResumePush(c)
        \/ ResumeThrow(c)
        \/ ResumeWarn(c)
        \/ ResumeStatements(c)

ConcurrentSpec == ConcurrentInit /\ [][ConcurrentNext]_vars

(***************************************************************************)
(* What an invocation returns when nothing runs beside it.                 *)
(***************************************************************************)
RECURSIVE tablesAlone(_, _, _, _, _)
tablesAlone(text, from, d, merged, acc) ==
    LET parsedAs(n, o) ==
            IF ~o.error THEN tablesAlone(text, n.lastIndex, d, merged, Append(acc, o.value))
            ELSE IF merged.strict THEN Throw(failureText(n.tableName, o.message))
            ELSE tablesAlone(text, n.lastIndex, d, merged, acc)
        reached(n) ==
            IF ~n.found THEN Ok(acc)
            ELSE parsedAs(n, parseTableDefinition(n.tableName, n.tableBody, d, merged))
    IN  reached(nextAwait(text, from))

parseDdlAlone(input) ==
    LET schema(d, merged, text, ts) ==
            IF ts.error THEN ts
            ELSE IF noTablesInStrictMode(merged.strict, ts.value, text)
            THEN Throw("Invalid SQL: Unable to parse any valid table definitions in strict mode")
            ELSE Ok([ dialect |-> d, tables |-> ts.value, version |-> "1.0" ])
        withText(d, merged, text) == schema(d, merged, text, tablesAlone(text, 1, d, merged, << >>))
        resolved(merged, d) ==
            IF d = None
            THEN Throw("Unable to determine SQL dialect. Please specify dialect explicitly.")
            ELSE withText(d[1], merged, cleanSql(input.sql))
    IN  IF isEmptySql(input.sql) THEN Throw("SQL cannot be empty")
        ELSE resolved(mergeOptions(input.options),
                      resolvedDialect(input, mergeOptions(input.options)))

runAlone(input) ==
    IF input.kind = "detectDialect" THEN Ok(detectDialect(input.sql))
    ELSE parseDdlAlone(input)

(***************************************************************************)
(* The front end: the AppContext with its reducer, the EditorPanel with    *)
(* handleParseSQL and its Parse SQL button, the Header, and the            *)
(* ErrorBanner that MainLayout mounts while state.error is set.  A         *)
(* handler's dispatches are batched: the components render once after the  *)
(* handler, with the state the reducer gives for the dispatches in order.  *)
(* Time is counted in steps of TimeStep milliseconds while an error shows. *)
(***************************************************************************)
MaxRequests == 2
TimeStep == 300
MaxAge == 3900

\* window.setTimeout(..., 3000)
AutoDismissDelay == 3000

\* const ANIM_DURATION = 300
ANIM_DURATION == 300

\* what the textarea holds
EditorTexts == { "", " ", "CREATE TABLE users (id INT);" }

appReducer(state, action) ==
    CASE action.type = "SET_SQL" ->
             [ state EXCEPT !.currentSQL = action.payload, !.error = None ]
      [] action.type = "SET_PARSED_DATA" -> [ state EXCEPT !.parsedData = action.payload ]
      [] action.type = "SET_DIAGRAM" -> [ state EXCEPT !.diagram = action.payload ]
      [] action.type = "SET_DIALECT" -> [ state EXCEPT !.selectedDialect = action.payload ]
      [] action.type = "SET_LOADING" -> [ state EXCEPT !.isLoading = action.payload # "idle" ]
      [] action.type = "SET_ERROR" ->
             [ state EXCEPT !.error = action.payload, !.isLoading = FALSE ]
      [] action.type = "TOGGLE_THEME" ->
             [ state EXCEPT !.theme = IF state.theme = "light" THEN "dark" ELSE "light" ]
      [] action.type = "CLEAR_ALL" ->
             [ state EXCEPT !.currentSQL = "", !.parsedData = None, !.diagram = None,
                            !.error = None, !.isLoading = FALSE ]
      [] OTHER -> state

\* the state after a handler's dispatches
RECURSIVE dispatched(_, _)
dispatched(state, actions) ==
    IF actions = << >> THEN state
    ELSE dispatched(appReducer(state, Head(actions)), Tail(actions))

setSQL(text) == [ type |-> "SET_SQL", payload |-> text ]
setParsedData(data) == [ type |-> "SET_PARSED_DATA", payload |-> data ]
setDiagram(diagram) == [ type |-> "SET_DIAGRAM", payload |-> diagram ]
setDialect(d) == [ type |-> "SET_DIALECT", payload |-> d ]
setLoading(loading) == [ type |-> "SET_LOADING", payload |-> loading ]
setError(error) == [ type |-> "SET_ERROR", payload |-> error ]
toggleTheme == [ type |-> "TOGGLE_THEME", payload |-> None ]

\* window.clearTimeout(ref.current) when ref.current is set
clearTimer(timers, ref) == { t \in timers : ref = None \/ t.id # ref[1] }

\* the id window.setTimeout returns: one no timer has and no ref holds
newTimerId(b) ==
    CHOOSE n \in 1..3 :
        /\ \A t \in b.timers : t.id # n
        /\ b.autoDismissRef # Some(n)
        /\ b.cleanupRef # Some(n)

\* the return of the effect: both timers are cleared
effectCleanup(b) ==
    [ b EXCEPT !.timers = clearTimer(clearTimer(b.timers, b.autoDismissRef), b.cleanupRef) ]

\* requestAnimationFrame(() => setVisible(true)), and the timer of the dismissal
scheduleDismiss(b) ==
    [ b EXCEPT !.frame = TRUE,
               !.timers = b.timers \cup { [ id |-> newTimerId(b), kind |-> "dismiss",
                                            remaining |-> AutoDismissDelay ] },
               !.autoDismissRef = Some(newTimerId(b)) ]

\* the effect with state.error set: the timers of before are cleared, then the
\* frame is requested and the timer of the dismissal is set
effect(b) == scheduleDismiss(effectCleanup(b))

\* the components render after a dispatch.  The provider makes setError anew in
\* every render, so the effect of a mounted ErrorBanner is cleaned up and runs
\* again; MainLayout unmounts the banner when state.error is null.
rendered(state, b) ==
    IF state.error = None
    THEN IF b.mounted
         THEN [ effectCleanup(b) EXCEPT !.mounted = FALSE, !.visible = FALSE,
                                        !.autoDismissRef = None, !.cleanupRef = None,
                                        !.age = 0 ]
         ELSE b
    ELSE IF b.mounted THEN effect(effectCleanup(b))
         ELSE effect([ b EXCEPT !.mounted = TRUE, !.visible = FALSE,
                                !.autoDismissRef = None, !.cleanupRef = None ])

\* the banner after a handler that set the error named: its time starts anew
shownAnew(b) == [ b EXCEPT !.age = 0, !.dismissedAt = None ]

FrontInit ==
    /\ stmts = << >>
    /\ sql = ""
    /\ dialect = None
    /\ options = [ inferDialect |-> None, includeIndexes |-> None,
                   includeActions |-> None, strict |-> None ]
    /\ pc = "start"
    /\ mergedOptions = None
    /\ detection = None
    /\ actualDialect = None
    /\ cleaned = ""
    /\ lastIndex = 1
    /\ current = None
    /\ outcome = None
    /\ tables = << >>
    /\ parsed = << >>
    /\ log = << >>
    /\ result = None
    /\ NoCaller
    /\ Quiet

back == << inputs, caller, mergedOptions, detection, actualDialect, scanState, result, pc,
           calls, regexIndex, dialectPatterns >>

\* a handler dispatches, and the components render
Dispatch(actions) ==
    /\ app' = dispatched(app, actions)
    /\ banner' = rendered(dispatched(app, actions), banner)

\* handleSQLChange, handleLoadSample, the Clear button, a file that was read
ChangeSQL ==
    /\ \E text \in EditorTexts : Dispatch(<< setSQL(text) >>)
    /\ UNCHANGED << back, requests >>

\* handleDialectChange
ChangeDialect ==
    /\ \E d \in { "mysql", "postgres" } : Dispatch(<< setDialect(d) >>)
    /\ UNCHANGED << back, requests >>

\* the theme button of the Header
ToggleTheme ==
    /\ Dispatch(<< toggleTheme >>)
    /\ UNCHANGED << back, requests >>

\* handleDrop without a SQL file
DropOtherFile ==
    /\ app' = dispatched(app, << setError(Some("Please drop a SQL file (.sql)")) >>)
    /\ banner' = shownAnew(rendered(app', banner))
    /\ UNCHANGED << back, requests >>

\* disabled={!state.currentSQL.trim() || state.isLoading}
parseDisabled(state) == Len(trim(state.currentSQL)) = 0 \/ state.isLoading

\* a click on Parse SQL: handleParseSQL up to its await
ClickParse ==
    /\ ~parseDisabled(app)
    /\ Len(requests) < MaxRequests
    /\ IF Len(trim(app.currentSQL)) = 0
       THEN /\ app' = dispatched(app, << setError(Some("Please enter SQL code to parse")) >>)
            /\ banner' = shownAnew(rendered(app', banner))
            /\ UNCHANGED requests
       ELSE /\ Dispatch(<< setLoading("parsing"), setError(None) >>)
            /\ requests' = Append(requests, [ sql |-> app.currentSQL,
                                              dialect |-> app.selectedDialect ])
    /\ UNCHANGED back

without(s, k) == SubSeq(s, 1, k - 1) \o SubSeq(s, k + 1, Len(s))

\* the await of handleParseSQL resumes with a result that has data
ParseSucceeds ==
    /\ \E k \in 1..Len(requests) :
           /\ Dispatch(<< setParsedData(Some(requests[k])), setLoading("generating"),
                          setDiagram(Some(requests[k])), setLoading("idle") >>)
           /\ requests' = without(requests, k)
    /\ UNCHANGED back

\* the await resumes otherwise: the catch
ParseFails ==
    /\ \E k \in 1..Len(requests) :
           /\ app' = dispatched(app, << setError(Some("Failed to parse SQL")), setLoading("idle") >>)
           /\ banner' = shownAnew(rendered(app', banner))
           /\ requests' = without(requests, k)
    /\ UNCHANGED back

\* the callback of requestAnimationFrame: setVisible(true)
AnimationFrame ==
    /\ banner.frame
    /\ banner' = [ banner EXCEPT !.frame = FALSE, !.visible = banner.mounted ]
    /\ UNCHANGED << back, app, requests >>

\* TimeStep milliseconds pass while an error shows and no callback is due
Tick ==
    /\ app.error # None
    /\ ~banner.frame
    /\ \A t \in banner.timers : t.remaining > 0
    /\ banner.age < MaxAge
    /\ banner' = [ banner EXCEPT
           !.age = @ + TimeStep,
           !.timers = { [ t EXCEPT !.remaining = IF @ > TimeStep THEN @ - TimeStep ELSE 0 ] :
                            t \in banner.timers } ]
    /\ UNCHANGED << back, app, requests >>

\* the timer of the dismissal: setVisible(false), and the timer of the clearing
AutoDismiss ==
    /\ \E t \in banner.timers :
           /\ t.kind = "dismiss" /\ t.remaining = 0
           /\ LET fired == [ banner EXCEPT !.timers = @ \ { t }, !.visible = FALSE ]
              IN  banner' = [ fired EXCEPT
                      !.timers = @ \cup { [ id |-> newTimerId(fired), kind |-> "cleanup",
                                            remaining |-> ANIM_DURATION ] },
                      !.cleanupRef = Some(newTimerId(fired)) ]
    /\ UNCHANGED << back, app, requests >>

\* the timer of the clearing: setError(null)
ClearError ==
    /\ \E t \in banner.timers :
           /\ t.kind = "cleanup" /\ t.remaining = 0
           /\ app' = dispatched(app, << setError(None) >>)
           /\ banner' = rendered(app', [ banner EXCEPT !.timers = @ \ { t },
                                                       !.dismissedAt = Some(banner.age) ])
    /\ UNCHANGED << back, requests >>

FrontNext ==
    \/ ChangeSQL
    \/ ChangeDialect
    \/ ToggleTheme
    \/ DropOtherFile
    \/ ClickParse
    \/ ParseSucceeds
    \/ ParseFails
    \/ AnimationFrame
    \/ Tick
    \/ AutoDismiss
    \/ ClearError

FrontSpec == FrontInit /\ [][FrontNext]_vars

(***************************************************************************)
(* C15: the JSON text of a schema, read back.                              *)
(***************************************************************************)
\* the route answered with the schema and its JSON text
Serialized == Answered /\ response[1].status = 200

SerializedSchema == response[1].data[1].schema

\* C15: the JSON text of every schema parseDdl returns reads back as a
\* schema equal to it: same dialect, version, tables, columns, types,
\* default values, keys, indexes and foreign keys, in the same order.
C15_RoundTrip ==
    Serialized =>
        /\ SerializedSchema = result[1].value
        /\ response[1].data[1].json = toJSON(SerializedSchema)
        /\ schemaRead(response[1].data[1].json) = SerializedSchema

\* the schema of 'limits', whose column ceiling has the default Infinity
C15_Witness ==
    /\ Serialized
    /\ stmts = << InfiniteDefaultStatement >>
    /\ Len(SerializedSchema.tables) = 1
    /\ SerializedSchema.tables[1].columns[2].default
           = Some([ kind |-> "infinity", negative |-> FALSE ])
    /\ schemaRead(response[1].data[1].json).tables[1].columns[2].default
           = Some([ kind |-> "null" ])

(***************************************************************************)
(* C16: the formatters and their input.                                    *)
(***************************************************************************)
Formatted == parsedData # None /\ Len(outputs) > 0

\* two calls of the same formatter on the object gave the same output
SameOutputs ==
    \A i, j \in 1..Len(outputs) :
        outputs[i].call = outputs[j].call => outputs[i].output = outputs[j].output

\* C16: after any calls of toMermaidER, toDBML, toJSON and generateERDiagram
\* on a schema object, the object equals what it was before the calls, and
\* a repeated call gave the same output.
C16_InputUnchanged ==
    Formatted =>
        /\ parsedData[1].object = parsedData[1].held
        /\ SameOutputs

\* generateERDiagram was called on a schema with a foreign key and an empty
\* relationships list, which now holds the relationship derived from the key
C16_Witness ==
    /\ Formatted
    /\ outputs[Len(outputs)].call = "generateERDiagram"
    /\ Len(parsedData[1].held.tables) = 1
    /\ Len(parsedData[1].held.tables[1].foreignKeys) = 1
    /\ parsedData[1].held.relationships = Some(<< >>)
    /\ parsedData[1].object.tables = parsedData[1].held.tables
    /\ parsedData[1].object.relationships # None
    /\ Len(parsedData[1].object.relationships[1]) = 1
    /\ parsedData[1].object.relationships[1][1].fromTable = "posts"
    /\ parsedData[1].object.relationships[1][1].toTable = "users"

(***************************************************************************)
(* C20: the answer of POST /api/parse when no table could be parsed.       *)
(***************************************************************************)
BadRequest ==
    /\ response[1].status = 400
    /\ ~response[1].success
    /\ response[1].metadata.tablesFound = 0

\* the SQL text holds comments and nothing else
OnlyComments == Len(stmts) > 0 /\ \A k \in 1..Len(stmts) : stmts[k] = CommentsOnly

\* C20, as stated: a request whose SQL yields no table is answered 400 with
\* success=false and tablesFound=0, and every 200 answer with success=true
\* reports one table at least.
C20_AsStated ==
    Answered =>
        /\ YieldsNoTable => BadRequest
        /\ (response[1].status = 200 /\ response[1].success) =>
               response[1].metadata.tablesFound >= 1

\* C20, amended: a request whose SQL yields no table and is more than
\* comments is answered 400 with success=false and tablesFound=0; when the
\* SQL is only comments and parseDdl returns, the answer is 200 with
\* success=true and tablesFound=0; every 200 answer reports the number of
\* tables of its schema, and reports zero only for SQL that is only comments.
C20_NoTableAnswer ==
    Answered =>
        /\ (YieldsNoTable /\ ~OnlyComments) => BadRequest
        /\ (OnlyComments /\ Returned) =>
               /\ response[1].status = 200
               /\ response[1].success
               /\ response[1].metadata.tablesFound = 0
        /\ response[1].status = 200 =>
               /\ response[1].success
               /\ response[1].metadata.tablesFound = Len(response[1].data[1].schema.tables)
               /\ response[1].metadata.tablesFound = Len(result[1].value.tables)
               /\ response[1].metadata.tablesFound = 0 => OnlyComments

\* parseDdl returned no table for 'INVALID SQL STATEMENT' and the answer is 400
C20_Witness ==
    /\ Answered
    /\ stmts = << OtherText("INVALID SQL STATEMENT") >>
    /\ Returned
    /\ Len(result[1].value.tables) = 0
    /\ BadRequest

\* C21: invocations side by side do not interfere: whatever the interleaving of
\* the parseDdl invocations at their awaits and of the detectDialect
\* invocations, an invocation that has returned has returned what it returns
\* when it runs alone, and the scores of DIALECT_PATTERNS are what they were.
C21_NoInterference ==
    /\ \A c \in DOMAIN calls :
           calls[c].pc = "done" => calls[c].result[1] = runAlone(calls[c].input)
    /\ dialectPatterns = initialPatternScore

\* an invocation with inference ran from its call to its return while another
\* was suspended inside its loop, after the warning for its first table
C21_Witness ==
    /\ DOMAIN calls = 1..MaxParseCalls
    /\ calls[1].pc = "definition"
    /\ calls[1].input.base = "CREATE TABLE items (id INT NOT NULL, name);\nCREATE TABLE users (id INT NOT NULL);"
    /\ calls[1].current[1].tableName = "users"
    /\ Len(log) = 1
    /\ calls[2].pc = "done"
    /\ calls[2].input.kind = "parseDdl"
    /\ calls[2].input.sql = "/* BIGSERIAL */ CREATE TABLE invalid (\nCREATE TABLE posts (id SERIAL, user_id INT);"
    /\ ~calls[2].result[1].error
    /\ Len(calls[2].result[1].value.tables) = 1

\* two finished parseDdl invocations whose texts differ in their comments only
SameButComments(a, b) ==
    /\ a.pc = "done" /\ b.pc = "done"
    /\ a.input.kind = "parseDdl" /\ b.input.kind = "parseDdl"
    /\ a.input.base = b.input.base
    /\ a.input.dialect = b.input.dialect
    /\ a.input.options = b.input.options

\* C26: the comments are removed before every stage, the detection of the
\* dialect included: two texts given to parseDdl that differ in the text of
\* their comments only have the same outcome, the same dialect and tables or
\* the same error.
C26_CommentsIgnored ==
    \A a \in DOMAIN calls, b \in DOMAIN calls :
        SameButComments(calls[a], calls[b]) => calls[a].result = calls[b].result

\* the same statement under two line comments: one is refused because no dialect
\* is found, the other is parsed as MySQL because of the words of its comment
C26_Witness ==
    /\ DOMAIN calls = 1..MaxParseCalls
    /\ SameButComments(calls[1], calls[2])
    /\ calls[1].input.base = "CREATE TABLE users (id INT NOT NULL, name VARCHAR(50));"
    /\ calls[1].input.comment = "-- first draft\n"
    /\ calls[2].input.comment = "-- ENGINE=InnoDB AUTO_INCREMENT\n"
    /\ calls[1].result[1] = Throw("Unable to determine SQL dialect. Please specify dialect explicitly.")
    /\ ~calls[2].result[1].error
    /\ calls[2].result[1].value.dialect = "mysql"
    /\ Len(calls[2].result[1].value.tables) = 1

(***************************************************************************)
(* C28: the lines of the diagram markup.                                   *)
(***************************************************************************)
\* the lines of a text, cut at its line feeds
RECURSIVE TextLines(_, _)
TextLines(text, from) ==
    LET cut(q) == IF q = 0 THEN << SubSeq(text, from, Len(text)) >>
                  ELSE << SubSeq(text, from, q - 1) >> \o TextLines(text, q + 1)
    IN  cut(indexOf(text, "\n", from))

\* the lines of the markup that are not blank, without their indentation
MarkupLines(text) ==
    LET trimmed(lines) == [ k \in 1..Len(lines) |-> trim(lines[k]) ]
    IN  SelectSeq(trimmed(TextLines(text, 1)), LAMBDA line : line # "")

\* the second word of a column line: the name after the type
SecondWord(line) ==
    LET word(rest) == SubSeq(rest, 1, RunNot(rest, 1, {" "}) - 1)
    IN  word(SubSeq(line, RunNot(line, 1, {" "}) + 1, Len(line)))

\* the line where the block of table k starts: after the first line and the
\* blocks of the tables before it
RECURSIVE BlockStart(_, _)
BlockStart(tables_, k) ==
    IF k = 1 THEN 2 ELSE BlockStart(tables_, k - 1) + Len(tables_[k - 1].columns) + 2

\* the lines are: erDiagram, then for each table in order its block (the
\* name, one line per column in order, the closing brace), then one line
\* per pair <<from, to>> in order
Mirrors(lines, tables_, pairs) ==
    /\ Len(lines) = BlockStart(tables_, Len(tables_) + 1) - 1 + Len(pairs)
    /\ lines[1] = "erDiagram"
    /\ \A k \in 1..Len(tables_) :
           /\ lines[BlockStart(tables_, k)] = tables_[k].name \o " {"
           /\ \A j \in 1..Len(tables_[k].columns) :
                  SecondWord(lines[BlockStart(tables_, k) + j]) = tables_[k].columns[j].name
           /\ lines[BlockStart(tables_, k + 1) - 1] = "}"
    /\ \A r \in 1..Len(pairs) :
           /\ startsWith(lines[BlockStart(tables_, Len(tables_) + 1) - 1 + r],
                         pairs[r][1] \o " ")
           /\ includes(lines[BlockStart(tables_, Len(tables_) + 1) - 1 + r],
                       " " \o pairs[r][2] \o " : \"")

\* the foreign keys of the schema, in table order then foreign-key order
ForeignKeyPairs(tables_) ==
    Flatten([ k \in 1..Len(tables_) |->
                [ j \in 1..Len(tables_[k].foreignKeys) |->
                    << tables_[k].name, tables_[k].foreignKeys[j].referencedTable >> ] ])

RelationshipPairs(list) == [ k \in 1..Len(list) |-> << list[k].fromTable, list[k].toTable >> ]

\* the relationships generateERDiagram is given: those of the list of the
\* object when it has one that is not empty, the foreign keys otherwise
GivenPairs(object) ==
    IF object.relationships # None /\ Len(object.relationships[1]) > 0
    THEN RelationshipPairs(object.relationships[1])
    ELSE ForeignKeyPairs(object.tables)

Diagrams == { k \in 1..Len(outputs) : outputs[k].call \in { "toMermaidER", "generateERDiagram" } }

Markup(out) == IF out.call = "toMermaidER" THEN out.output ELSE out.output.code

C29_LoadingWhileInFlight ==
    /\ Len(requests) > 0 => app.isLoading /\ parseDisabled(app)
    /\ Len(requests) <= 1
    /\ Len(requests) = 0 => ~app.isLoading

\* two requests are in flight, isLoading is false and the button can be
\* clicked again
C29_Witness ==
    /\ Len(requests) = MaxRequests
    /\ ~app.isLoading
    /\ ~parseDisabled(app)
    /\ app.error = None

\* C30: every error the ErrorBanner shows is dismissed by itself: an error
\* that was set and not changed is cleared 3000 ms and the 300 ms of the exit
\* animation later, not after and, by a timer, not before.
C30_AutoDismissed ==
    /\ app.error # None => banner.age <= AutoDismissDelay + ANIM_DURATION
    /\ banner.dismissedAt # None => banner.dismissedAt[1] = AutoDismissDelay + ANIM_DURATION

\* the error of a dropped file still shows 3600 ms after it was set, with the
\* timer of the dismissal running: the theme was switched in between
C30_Witness ==
    /\ app.error = Some("Please drop a SQL file (.sql)")
    /\ app.theme = "dark"
    /\ banner.age = AutoDismissDelay + ANIM_DURATION + TimeStep
    /\ \E t \in banner.timers : t.kind = "dismiss" /\ t.remaining > 0
    /\ requests = << >>
=============================================================================
